---- MODULE Spec2Model ----
(***************************************************************************)
(* sep_color: an After Effects effect that composites a solid colour       *)
(* through an analytic anti-aliased Line / Circle mask.                    *)
(*                                                                         *)
(* Numbers.  The C++ code computes in IEEE-754 single precision, and so    *)
(* does this module: a float is held as the integer that reads its bit     *)
(* pattern in sign-magnitude form (biased exponent * 2^23 + fraction, with *)
(* the sign of the float), so that floats compare as their integers do,    *)
(* and every operation rounds to nearest, ties to even, as the hardware    *)
(* does.  Zero is 0; infinities, NaNs and subnormals do not arise from the *)
(* values used here.  Each expression of the source is written with its    *)
(* operations in the order the compiler evaluates them (no contraction to  *)
(* fused multiply-add).  Int8 channels are 0..255, Int16 channels 0..32768 *)
(* and Float32 channels are floats.                                        *)
(***************************************************************************)
EXTENDS Integers, Sequences, FiniteSets, TLC

\* ------------------------------------------------------------------ bounds
MaxWidth == 3
MaxHeight == 3
MaxThreads == 2
MaxRadius == 1
MaxAnchor == 4
MaxRenders == 2
BlendSteps == 4

Formats == {"Int8", "Int16", "Float32"}

Pix(r, g, b, a) == [red |-> r, green |-> g, blue |-> b, alpha |-> a]

Min(a, b) == IF a <= b THEN a ELSE b
Max(a, b) == IF a >= b THEN a ELSE b
Abs(a) == IF a >= 0 THEN a ELSE -a

\* ------------------------------------------------------- single precision
\* The operations of the floating-point unit: Pack .. SqrtRound are the steps
\* of IEEE-754 arithmetic on bit patterns, FromInt, FMul, FAdd, FSub, FDiv,
\* Sqrtf, FTrunc, FFloor and FCeil are the operations the source applies.
Two23 == 2 ^ 23

Sign(p) == IF p < 0 THEN -1 ELSE 1

\* Biased exponent and 24-bit significand (with the hidden bit) of a float.
Exponent(p) == Abs(p) \div Two23
Significand(p) == (Abs(p) % Two23) + Two23

\* The float of sign sgn, significand m in [2^23, 2^24) and biased exponent
\* e, moved to the next float away from zero when up holds (a carry out of
\* the fraction runs into the exponent, as it should).
Pack(sgn, m, e, up) == sgn * (e * Two23 + (m - Two23) + (IF up THEN 1 ELSE 0))

\* Round to nearest, ties to even: rem is what was cut off below m, half is
\* half a unit of m.
RoundUp(m, rem, half) == rem > half \/ (rem = half /\ m % 2 = 1)

\* v = <<s, e>>: s shifted left until it reaches top, the exponent e lowered
\* in step (by eight bits at a time while that does not overshoot).
RECURSIVE Normalize(_, _)
Normalize(v, top) ==
    IF v[1] >= top THEN v
    ELSE IF v[1] < top \div 256 THEN Normalize(<<256 * v[1], v[2] - 8>>, top)
    ELSE Normalize(<<2 * v[1], v[2] - 1>>, top)

\* A significand and exponent v = <<m, e>> packed as they are.
PackExact(sgn, v) == Pack(sgn, v[1], v[2], FALSE)

\* static_cast<float>(n) of an integer below 2^24 in magnitude (exact).
FromInt(n) ==
    IF n = 0 THEN 0
    ELSE PackExact(Sign(n), Normalize(<<Abs(n), 150>>, Two23))

\* <<high, low>> 24-bit halves of the 48-bit product of two significands,
\* formed from their 12-bit halves.
Product(ma, mb) ==
    LET mid == (ma \div 4096) * (mb % 4096) + (ma % 4096) * (mb \div 4096)
        low == (ma % 4096) * (mb % 4096) + (mid % 4096) * 4096
    IN <<(ma \div 4096) * (mb \div 4096) + (mid \div 4096) + (low \div (2 ^ 24)),
         low % (2 ^ 24)>>

\* The product p = <<high, low>> at exponent e rounded to 24 bits.
MulRound(sgn, e, p) ==
    IF p[1] >= Two23
    THEN Pack(sgn, p[1], e + 1, RoundUp(p[1], p[2], Two23))
    ELSE Pack(sgn, 2 * p[1] + (p[2] \div Two23), e,
              RoundUp(2 * p[1] + (p[2] \div Two23), p[2] % Two23, 2 ^ 22))

\* a * b.
FMul(a, b) ==
    IF a = 0 \/ b = 0 THEN 0
    ELSE MulRound(Sign(a) * Sign(b), Exponent(a) + Exponent(b) - 127,
                  Product(Significand(a), Significand(b)))

\* a * a.
Square(a) == FMul(a, a)

\* s shifted right by d bits, the lowest bit kept set if any bit was lost.
ShiftRightJam(s, d) ==
    LET q == s \div (2 ^ d)
    IN IF s % (2 ^ d) # 0 /\ q % 2 = 0 THEN q + 1 ELSE q

\* A sum v = <<t, e>>, t carrying three guard bits, rounded to 24 bits.
AddRound(sgn, v) ==
    Pack(sgn, v[1] \div 8, v[2], RoundUp(v[1] \div 8, v[1] % 8, 4))

\* The sum s of two aligned significands at exponent e, normalised.
AddSum(sgn, e, s) ==
    IF s = 0 THEN 0
    ELSE AddRound(sgn, IF s >= 2 ^ 27 THEN <<ShiftRightJam(s, 1), e + 1>>
                       ELSE Normalize(<<s, e>>, 2 ^ 26))

\* big + small for |big| >= |small|: small is aligned to big with three
\* guard bits, and added or subtracted.
AddAligned(big, small) ==
    IF Exponent(big) - Exponent(small) > 26 THEN big
    ELSE AddSum(Sign(big), Exponent(big),
                Significand(big) * 8
                    + Sign(big) * Sign(small)
                        * ShiftRightJam(Significand(small) * 8,
                                        Exponent(big) - Exponent(small)))

Larger(a, b) == IF Abs(a) >= Abs(b) THEN a ELSE b
Smaller(a, b) == IF Abs(a) >= Abs(b) THEN b ELSE a

\* a + b.
FAdd(a, b) ==
    IF a = 0 THEN b
    ELSE IF b = 0 THEN a
    ELSE AddAligned(Larger(a, b), Smaller(a, b))

\* a - b.
FSub(a, b) == FAdd(a, -b)

\* n more quotient bits of r / d by long division, from qr = <<quotient,
\* remainder>> on with remainder < d < 2^24, six bits at a time while six
\* are left.
RECURSIVE DivBits(_, _, _)
DivBits(qr, d, n) ==
    IF n = 0 THEN qr
    ELSE IF n >= 6
    THEN DivBits(<<64 * qr[1] + ((64 * qr[2]) \div d), (64 * qr[2]) % d>>, d, n - 6)
    ELSE DivBits(<<2 * qr[1] + ((2 * qr[2]) \div d), (2 * qr[2]) % d>>, d, n - 1)

\* A quotient with two guard bits and its remainder, rounded to 24 bits.
DivRound(sgn, e, qr) ==
    Pack(sgn, qr[1] \div 4, e,
         RoundUp(qr[1] \div 4, 2 * (qr[1] % 4) + (IF qr[2] # 0 THEN 1 ELSE 0), 4))

\* a / b for b # 0.
FDiv(a, b) ==
    IF a = 0 THEN 0
    ELSE IF Significand(a) >= Significand(b)
    THEN DivRound(Sign(a) * Sign(b), Exponent(a) - Exponent(b) + 127,
                  DivBits(<<1, Significand(a) - Significand(b)>>, Significand(b), 25))
    ELSE DivRound(Sign(a) * Sign(b), Exponent(a) - Exponent(b) + 126,
                  DivBits(<<0, Significand(a)>>, Significand(b), 26))

\* Digit-by-digit square root of rad, n bit pairs of it and then zeros pairs
\* of zero bits, from v = <<root, remainder>> on.  Each step takes one more
\* bit of the root from the remainder rr against the trial 4 * root + 1.
RECURSIVE SqrtBits(_, _, _, _)
SqrtStep(rad, n, zeros, v, rr) ==
    IF rr >= 4 * v[1] + 1
    THEN SqrtBits(rad, n, zeros, <<2 * v[1] + 1, rr - (4 * v[1] + 1)>>)
    ELSE SqrtBits(rad, n, zeros, <<2 * v[1], rr>>)
SqrtBits(rad, n, zeros, v) ==
    IF n = 0 /\ zeros = 0 THEN v
    ELSE IF n > 0
    THEN SqrtStep(rad, n - 1, zeros, v, 4 * v[2] + ((rad \div (4 ^ (n - 1))) % 4))
    ELSE SqrtStep(rad, 0, zeros - 1, v, 4 * v[2])

\* A root of 26 or 27 bits (cut of them 2 or 4) with its sticky bit, rounded
\* to 24 bits.
SqrtCut(e, root, cut, sticky) ==
    Pack(1, root \div cut, e, RoundUp(root \div cut, 2 * (root % cut) + sticky, cut))

\* The root sr = <<root, remainder>> of a significand at the even exponent e2.
SqrtRound(e2, sr) ==
    IF sr[1] >= 2 ^ 25
    THEN SqrtCut((e2 \div 2) + 139, sr[1], 4, IF sr[2] # 0 THEN 1 ELSE 0)
    ELSE SqrtCut((e2 \div 2) + 138, sr[1], 2, IF sr[2] # 0 THEN 1 ELSE 0)

\* The 13 bit pairs of rad and then 13 pairs of zero bits.
SqrtDigits(rad) == SqrtBits(rad, 0, 13, SqrtBits(rad, 13, 0, <<0, 0>>))

\* sqrtf(a) for a >= 0, correctly rounded.
Sqrtf(a) ==
    IF a = 0 THEN 0
    ELSE IF (Exponent(a) - 150) % 2 = 1
    THEN SqrtRound(Exponent(a) - 151, SqrtDigits(2 * Significand(a)))
    ELSE SqrtRound(Exponent(a) - 150, SqrtDigits(Significand(a)))

\* static_cast<int>(a): the fraction is dropped.
FTrunc(a) ==
    IF Exponent(a) < 127 THEN 0
    ELSE IF Exponent(a) >= 150
    THEN Sign(a) * Significand(a) * (2 ^ (Exponent(a) - 150))
    ELSE Sign(a) * (Significand(a) \div (2 ^ (150 - Exponent(a))))

FIsWhole(a) ==
    \/ a = 0
    \/ Exponent(a) >= 150
    \/ (Exponent(a) >= 127 /\ Significand(a) % (2 ^ (150 - Exponent(a))) = 0)

\* static_cast<int>(std::floor(a)) and static_cast<int>(std::ceil(a)).
FFloor(a) == IF a < 0 /\ ~FIsWhole(a) THEN FTrunc(a) - 1 ELSE FTrunc(a)
FCeil(a) == IF a > 0 /\ ~FIsWhole(a) THEN FTrunc(a) + 1 ELSE FTrunc(a)

\* The float literal n / d of the source: the float nearest the quotient.
Lit(n, d) == FDiv(FromInt(n), FromInt(d))

FZero == 0
FOne == FromInt(1)
FHalf == Lit(1, 2)
FTwo == FromInt(2)

\* 3.14159265358979323846f and pi_f / 180.0f.
PiF == 1078530011
DegToRad == FDiv(PiF, FromInt(180))

\* edge_width = 0.707f and inv_edge_width = 1.0f / edge_width.
EdgeWidth == Lit(707, 1000)
InvEdgeWidth == FDiv(FOne, EdgeWidth)

\* INV_255 = 1.0f / 255.0f and INV_32768 = 1.0f / 32768.0f.
INV_255 == FDiv(FOne, FromInt(255))
INV_32768 == FDiv(FOne, FromInt(32768))

\* The thresholds 0.0001f and 0.9999f of the coverage, and the 1e-6f that
\* guards the division by a resolution factor.
CoverageLow == Lit(1, 10000)
CoverageHigh == Lit(9999, 10000)
DownsampleFloor == Lit(1, 1000000)

\* Largest channel value of a format (PF_MAX_CHAN8, PF_MAX_CHAN16, 1.0f).
One(fmt) == CASE fmt = "Int8" -> 255
              [] fmt = "Int16" -> 32768
              [] OTHER -> FOne

\* fmodf(angle, 360.0f) of a whole number of degrees: exact, and the
\* remainder keeps the sign of the angle.
Fmodf360(a) == IF a >= 0 THEN a % 360 ELSE -((-a) % 360)

\* cosf and sinf as the C library computes them, for the angles the model
\* forms: entry k is the value at the float of (15 * (k - 1) - 720) degrees in
\* radians.  The values are not exact at the right angles: cosf of the float
\* next to pi / 2 is a small number, not 0.
CosTable ==
    <<1065353216, 1064781546, 1063105491, 1060439284, 1056964596, 1048871922,
      -882621047, -1048871910, -1056964611, -1060439279, -1063105496, -1064781548,
      -1065353216, -1064781544, -1063105496, -1060439280, -1056964611, -1048871912,
      873812870, 1048871921, 1056964608, 1060439283, 1063105495, 1064781546,
      1065353216, 1064781545, 1063105494, 1060439281, 1056964605, 1048871917,
      843898414, -1048871916, -1056964605, -1060439284, -1063105495, -1064781546,
      -1065353216, -1064781546, -1063105495, -1060439283, -1056964609, -1048871918,
      -859553070, 1048871919, 1056964607, 1060439283, 1063105495, 1064781546,
      1065353216, 1064781546, 1063105495, 1060439283, 1056964607, 1048871919,
      -859553070, -1048871918, -1056964609, -1060439283, -1063105495, -1064781546,
      -1065353216, -1064781546, -1063105495, -1060439284, -1056964605, -1048871916,
      843898414, 1048871917, 1056964605, 1060439281, 1063105494, 1064781545,
      1065353216, 1064781546, 1063105495, 1060439283, 1056964608, 1048871921,
      873812870, -1048871912, -1056964611, -1060439280, -1063105496, -1064781544,
      -1065353216, -1064781548, -1063105496, -1060439279, -1056964611, -1048871910,
      -882621047, 1048871922, 1056964596, 1060439284, 1063105491, 1064781546,
      1065353216>>

SinTable ==
    <<-884718894, 1048871921, 1056964615, 1060439283, 1063105499, 1064781546,
      1065353216, 1064781547, 1063105494, 1060439287, 1056964606, 1048871902,
      852287022, -1048871931, -1056964604, -1060439287, -1063105493, -1064781547,
      -1065353216, -1064781546, -1063105495, -1060439283, -1056964609, -1048871922,
      -876330286, 1048871926, 1056964611, 1060439285, 1063105496, 1064781546,
      1065353216, 1064781547, 1063105496, 1060439282, 1056964607, 1048871919,
      867941678, -1048871921, -1056964609, -1060439283, -1063105495, -1064781546,
      -1065353216, -1064781546, -1063105496, -1060439283, -1056964608, -1048871918,
      0, 1048871918, 1056964608, 1060439283, 1063105496, 1064781546,
      1065353216, 1064781546, 1063105495, 1060439283, 1056964609, 1048871921,
      -867941678, -1048871919, -1056964607, -1060439282, -1063105496, -1064781547,
      -1065353216, -1064781546, -1063105496, -1060439285, -1056964611, -1048871926,
      876330286, 1048871922, 1056964609, 1060439283, 1063105495, 1064781546,
      1065353216, 1064781547, 1063105493, 1060439287, 1056964604, 1048871931,
      -852287022, -1048871902, -1056964606, -1060439287, -1063105494, -1064781547,
      -1065353216, -1064781546, -1063105499, -1060439283, -1056964615, -1048871921,
      884718894>>

\* The angles the tables cover, in whole degrees.
TrigAngles == {15 * k - 720 : k \in 0..96}

\* The angle in radians of a whole number of degrees:
\* float(deg) * (pi_f / 180.0f), for the angles the tables cover.
RadiansTable == [deg \in TrigAngles |-> FMul(FromInt(deg), DegToRad)]
Radians(deg) == RadiansTable[deg]

\* The place in the tables of each of these angles, by its float.
TrigIndex ==
    [a \in {Radians(deg) : deg \in TrigAngles} |->
        (((CHOOSE deg \in TrigAngles : Radians(deg) = a) + 720) \div 15) + 1]

\* cosf(a) and sinf(a) for a = Radians(deg), deg a multiple of 15 from -720
\* to 720.
Cosf(a) == CosTable[TrigIndex[a]]
Sinf(a) == SinTable[TrigIndex[a]]

\* ------------------------------------------------------------ blend engine
\* The float src + (dst - src) * coverage_alpha + 0.5f with the difference
\* taken the other way round.
BeforeCastSwapped(src, dst, coverage_alpha) ==
    FAdd(FAdd(FromInt(src), FMul(FromInt(src - dst), coverage_alpha)), FHalf)

\* The float src + (dst - src) * coverage_alpha + 0.5f of FastBlend and
\* FastBlend16: dst - src is an int, the product and both sums are floats.
BeforeCast(src, dst, coverage_alpha) ==
    FAdd(FAdd(FromInt(src), FMul(FromInt(dst - src), coverage_alpha)), FHalf)

\* A blend with the operands of the difference exchanged.
FastBlendSwapped(src, dst, coverage_alpha) ==
    FTrunc(BeforeCastSwapped(src, dst, coverage_alpha)) % 256

\* static_cast<A_u_char>(...): the fraction is dropped and the low byte kept.
FastBlend(src, dst, coverage_alpha) ==
    FTrunc(BeforeCast(src, dst, coverage_alpha)) % 256

\* static_cast<A_u_short>(...).
FastBlend16(src, dst, coverage_alpha) ==
    FTrunc(BeforeCast(src, dst, coverage_alpha)) % 65536

\* src + (dst - src) * coverage_alpha, all floats.
FastBlendFloat(src, dst, coverage_alpha) ==
    FAdd(src, FMul(FSub(dst, src), coverage_alpha))

\* coverage * input_px.alpha * inv: the product is formed from the left
\* (Render8, Render16, Render8Fast).
CoverageAlphaLeft(coverage, alpha, inv) ==
    FMul(FMul(coverage, FromInt(alpha)), inv)

\* coverage * (static_cast<float>(alpha) * inv): the alpha is normalised
\* first (IteratePix8, IteratePix16, Render16Fast).
CoverageAlphaRight(coverage, alpha, inv) ==
    FMul(coverage, FMul(FromInt(alpha), inv))

\* coverage(x, y) * (cast<float>(alpha) / 255.0f) of the accelerated pipeline.
CoverageAlphaDivided(coverage, alpha) ==
    FMul(coverage, FDiv(FromInt(alpha), FromInt(255)))

\* ----------------------------------------------------- pixel format adapter
\* A conversion that scales to the full 16-bit range 0..65535.
Color16FullRange(c) == ((c * 65535 + 127) \div 255) % 65536

\* 8-bit UI colour channel converted to the Int16 domain.
Color16(c) == ((c * 32768 + 127) \div 255) % 65536

\* 8-bit UI colour channel converted to the Float32 domain:
\* static_cast<float>(c) * INV_255, for every value of the channel.
ColorFloats == [c \in 0..255 |-> FMul(FromInt(c), INV_255)]
ColorFloat(c) == ColorFloats[c]

\* The solid colour a format writes; its alpha field is never read.
SolidColor(fmt, color8) ==
    CASE fmt = "Int8" -> color8
      [] fmt = "Int16" -> Pix(Color16(color8.red), Color16(color8.green),
                              Color16(color8.blue), 32768)
      [] OTHER -> Pix(ColorFloat(color8.red), ColorFloat(color8.green),
                      ColorFloat(color8.blue), FOne)

\* Transparency test of a format: alpha == 0, or alpha <= 0.0f for Float32.
IsTransparent(fmt, px) == IF fmt = "Float32" THEN px.alpha <= 0 ELSE px.alpha = 0

\* sizeof(PF_Pixel), sizeof(PF_Pixel16), sizeof(PF_PixelFloat).
PixelBytes(fmt) == CASE fmt = "Int8" -> 4
                     [] fmt = "Int16" -> 8
                     [] OTHER -> 16

\* --------------------------------------------------------------- coverage
\* (sd + 1.0f) * 0.5f.
HalfOfPlusOne(sd) == FMul(FAdd(sd, FOne), FHalf)

\* A clamp that lets every value through.
Clamp01Open(coverage) == coverage

\* std::max(0.0f, std::min(1.0f, coverage)).
Clamp01(coverage) == Max(FZero, Min(FOne, coverage))

\* std::max(-1.0f, std::min(1.0f, signed_dist)).
ClampSigned(sd) == Max(-FOne, Min(FOne, sd))

\* The coverage of a signed distance: the callbacks of the integer formats
\* take HalfOfPlusOne as it is, IteratePix32 and the accelerated pipeline
\* clamp the coverage, and the loops clamp the signed distance.
CoverageClamped(sd) == Clamp01(HalfOfPlusOne(sd))
CoverageOfClamped(sd) == HalfOfPlusOne(ClampSigned(sd))

\* The three ways a pixel is written.
PassThrough(in) == in
FullColor(in, col) == Pix(col.red, col.green, col.blue, in.alpha)
Blended(fmt, in, col, coverage_alpha) ==
    CASE fmt = "Int8" ->
           Pix(FastBlend(in.red, col.red, coverage_alpha),
               FastBlend(in.green, col.green, coverage_alpha),
               FastBlend(in.blue, col.blue, coverage_alpha),
               in.alpha)
      [] fmt = "Int16" ->
           Pix(FastBlend16(in.red, col.red, coverage_alpha),
               FastBlend16(in.green, col.green, coverage_alpha),
               FastBlend16(in.blue, col.blue, coverage_alpha),
               in.alpha)
      [] OTHER ->
           Pix(FastBlendFloat(in.red, col.red, coverage_alpha),
               FastBlendFloat(in.green, col.green, coverage_alpha),
               FastBlendFloat(in.blue, col.blue, coverage_alpha),
               in.alpha)

\* ------------------------------------------------------------ the request
\* What one render call reads: the output world's size, format and row
\* length, the input world's row length, the host parameters and the input
\* image.  angle is params[ID_ANGLE] >> 16 (whole degrees), radius is
\* static_cast<float>(params[ID_RADIUS]), downsample_x is the denominator of
\* in_data->downsample_x over a numerator of 1.
Colors == {Pix(255, 0, 0, 255)}
Angles == {-90, 0, 180}
Anchors == {<<-1, 0>>, <<1, 1>>}
Downsamples == {1, 2}

\* The radius of h half pixels as a float.
Radius(h) == Lit(h, 2)

\* Radii of the requests: the whole numbers up to MaxRadius.
Radii == {Radius(2 * r) : r \in 0..MaxRadius}

\* in_data->downsample_x.den / in_data->downsample_x.num as a float, for the
\* denominators of Downsamples over a numerator of 1.
Downsample == [den \in Downsamples |-> FDiv(FromInt(den), FromInt(1))]

\* A Float32 channel of k / 255.
Chan == [k \in 0..255 |-> Lit(k, 255)]

\* Pixels the input images are made of, per format: a transparent pixel with
\* colour left in it, a half-transparent one, an opaque one and a faint one
\* (for Float32 one with a negative alpha).
Palette(fmt) ==
    CASE fmt = "Int8" ->
           <<Pix(10, 20, 30, 0), Pix(0, 100, 200, 128),
             Pix(41, 50, 60, 255), Pix(200, 0, 254, 1)>>
      [] fmt = "Int16" ->
           <<Pix(1000, 2000, 3000, 0), Pix(0, 16384, 32768, 16384),
             Pix(4000, 5000, 6000, 32768), Pix(32768, 0, 7, 1)>>
      [] OTHER ->
           <<Pix(Chan[10], Chan[20], Chan[30], FZero),
             Pix(FZero, Chan[100], Chan[200], Chan[128]),
             Pix(Chan[41], Chan[50], Chan[60], FOne),
             Pix(Chan[200], FZero, FOne, -Chan[51])>>

\* The image whose pixels all carry the maximum alpha; the colours change
\* with the position.
OpaquePattern == 4
OpaquePixel(fmt, x, y) ==
    CASE fmt = "Int8" -> Pix(41 + 2 * x, 50 + 2 * y, 60, 255)
      [] fmt = "Int16" -> Pix(4000 + 2 * x, 5000 + 2 * y, 6000, 32768)
      [] OTHER -> Pix(Chan[41 + 2 * x], Chan[50 + 2 * y], Chan[60], FOne)

\* What lies in the input world's memory beside the image: the bytes that
\* pad a row and the bytes after the last row.  Their content is not the
\* plug-in's to choose; a request carries one of these.
Paddings(fmt) ==
    CASE fmt = "Int8" -> {Pix(0, 0, 0, 0), Pix(7, 7, 7, 77)}
      [] fmt = "Int16" -> {Pix(0, 0, 0, 0), Pix(7, 7, 7, 77)}
      [] OTHER -> {Pix(FZero, FZero, FZero, FZero), Pix(FHalf, FHalf, FHalf, FHalf)}

\* Pixel (x, y) of the input world, the pixel the host hands to a callback:
\* image number pattern laid out over the palette, or the opaque image.
SourcePixel(rq, x, y) ==
    IF rq.pattern = OpaquePattern
    THEN OpaquePixel(rq.format, x, y)
    ELSE Palette(rq.format)[((x + 3 * y + rq.pattern) % 4) + 1]

\* Whole pixels in a row of rowbytes bytes: rowbytes / sizeof(pixel).
Stride(rowbytes, fmt) == rowbytes \div PixelBytes(fmt)

\* input_pixels[i]: the input world's memory read as an array of pixels.
\* Row y of the image starts at byte y * rowbytes of the input world.
InputElement(rq, i) ==
    LET stride == Stride(rq.in_rowbytes, rq.format)
    IN IF i % stride < rq.width /\ i \div stride < rq.height
       THEN SourcePixel(rq, i % stride, i \div stride)
       ELSE rq.padding

\* input_row[x] of the manual loops:
\* input_row = input_pixels + y * input_stride, where input_stride is
\* output->rowbytes / sizeof(pixel), the stride of the output world.
InputPixel(rq, x, y) ==
    InputElement(rq, y * Stride(rq.out_rowbytes, rq.format) + x)

\* Row lengths in bytes of an input world of the given width: no padding, or
\* one pixel of padding.  The output world's rows are not padded.
RowBytes(fmt, width) == {PixelBytes(fmt) * width, PixelBytes(fmt) * (width + 1)}

Requests ==
    UNION {[format : {fmt},
            width : {MaxWidth},
            height : 0..MaxHeight,
            in_rowbytes : RowBytes(fmt, MaxWidth),
            out_rowbytes : {PixelBytes(fmt) * MaxWidth},
            padding : Paddings(fmt),
            mode : {1, 2},
            angle : Angles,
            radius : Radii,
            anchor_x : {a[1] : a \in Anchors},
            anchor_y : {a[2] : a \in Anchors},
            downsample_x : Downsamples,
            downsample_y : Downsamples,
            color : Colors,
            pattern : {0},
            in_place : BOOLEAN] : fmt \in Formats}

\* The requests the model renders: a Line request carries radius 0, a Circle
\* request angle 0 (the parameter the mode ignores), and both resolution
\* factors are equal.  An in-place render has one world; a request whose two
\* row lengths agree never reads the padding (it carries the cleared one);
\* and the padded input worlds are those of MaxHeight rows.
IsRequest(rq) ==
    /\ <<rq.anchor_x, rq.anchor_y>> \in Anchors
    /\ rq.downsample_x = rq.downsample_y
    /\ rq.mode = 1 => rq.radius = Radius(0)
    /\ rq.mode # 1 => rq.angle = 0
    /\ rq.in_place => rq.in_rowbytes = rq.out_rowbytes
    /\ rq.in_rowbytes = rq.out_rowbytes => rq.padding = Pix(0, 0, 0, 0)
    /\ rq.height < MaxHeight => rq.in_rowbytes = rq.out_rowbytes

Coords(rq) == (0..(rq.width - 1)) \X (0..(rq.height - 1))

\* ------------------------------------------------- host-iterate callbacks
\* IterateRefcon as Render8Iterate / Render16Iterate / Render32Iterate fill
\* it.  The struct is value-initialised (rc{}), so a field a function does
\* not assign is zero: Render8Iterate leaves r16, g16, b16 alone, and
\* Render32Iterate leaves cs, sn, r_minus2, r_plus2 and r16, g16, b16 alone.
\* No function assigns rF, gF, bF.
Refcon(rq) ==
    [width |-> rq.width, height |-> rq.height,
     anchor_x |-> rq.anchor_x, anchor_y |-> rq.anchor_y,
     downsample_x |-> Downsample[rq.downsample_x],
     downsample_y |-> Downsample[rq.downsample_y],
     angle |-> Radians(rq.angle), radius |-> rq.radius, mode |-> rq.mode,
     edge_width |-> EdgeWidth, inv_edge_width |-> InvEdgeWidth,
     color8 |-> rq.color,
     cs |-> IF rq.format # "Float32" THEN Cosf(Radians(rq.angle)) ELSE FZero,
     sn |-> IF rq.format # "Float32" THEN Sinf(Radians(rq.angle)) ELSE FZero,
     r_minus2 |-> IF rq.format # "Float32"
                  THEN Square(FSub(rq.radius, EdgeWidth)) ELSE FZero,
     r_plus2 |-> IF rq.format # "Float32"
                 THEN Square(FAdd(rq.radius, EdgeWidth)) ELSE FZero,
     r16 |-> IF rq.format = "Int16" THEN Color16(rq.color.red) ELSE 0,
     g16 |-> IF rq.format = "Int16" THEN Color16(rq.color.green) ELSE 0,
     b16 |-> IF rq.format = "Int16" THEN Color16(rq.color.blue) ELSE 0,
     rF |-> FZero, gF |-> FZero, bF |-> FZero]

\* What a kernel decides for one pixel: "copy" passes the input through,
\* "fill" stores the solid colour, "blend" calls the blend function of the
\* format with weight as its coverage_alpha; coverage is the coverage the
\* decision was taken on (0 when an exit was taken before it was computed).
Step(kind, coverage, weight) == [kind |-> kind, coverage |-> coverage, weight |-> weight]

\* The steps that take no coverage.
CopyStep == Step("copy", FZero, FZero)
FillStep == Step("fill", FZero, FZero)

\* The two fast exits on the coverage, then the blend.
Threshold(coverage, coverage_alpha) ==
    IF coverage <= CoverageLow THEN Step("copy", coverage, FZero)
    ELSE IF coverage >= CoverageHigh THEN Step("fill", coverage, FZero)
    ELSE Step("blend", coverage, coverage_alpha)

\* A rotation with the sine and the cosine exchanged.
RotatedSwapped(rx, ry, cs, sn) == FAdd(FMul(rx, sn), FMul(ry, cs))

\* rx * cs + ry * sn and rx * rx + ry * ry.
Rotated(rx, ry, cs, sn) == FAdd(FMul(rx, cs), FMul(ry, sn))
SumOfSquares(rx, ry) == FAdd(Square(rx), Square(ry))

\* A signed distance whose Circle branch grows outward: dist - radius.
SignedDistOutward(mode, rx, ry, cs, sn, radius, inv_edge_width) ==
    IF mode = 1 THEN FMul(Rotated(rx, ry, cs, sn), inv_edge_width)
    ELSE FMul(FSub(Sqrtf(SumOfSquares(rx, ry)), radius), inv_edge_width)

\* signed_dist of a pixel at (rx, ry) from the anchor, as every kernel that
\* computes it per pixel writes it: (rx * cs + ry * sn) * inv_edge_width for
\* a Line, (radius - sqrtf(rx * rx + ry * ry)) * inv_edge_width for a Circle.
SignedDist(mode, rx, ry, cs, sn, radius, inv_edge_width) ==
    IF mode = 1 THEN FMul(Rotated(rx, ry, cs, sn), inv_edge_width)
    ELSE FMul(FSub(radius, Sqrtf(SumOfSquares(rx, ry))), inv_edge_width)

\* The store a step makes.
StorePixel(fmt, in, col, s) ==
    CASE s.kind = "copy" -> PassThrough(in)
      [] s.kind = "fill" -> FullColor(in, col)
      [] OTHER -> Blended(fmt, in, col, s.weight)

\* fx and fy of the callbacks: (static_cast<float>(x) - rc->anchor_x) *
\* rc->downsample_x.
IterateFx(rc, x) == FMul(FSub(FromInt(x), FromInt(rc.anchor_x)), rc.downsample_x)
IterateFy(rc, y) == FMul(FSub(FromInt(y), FromInt(rc.anchor_y)), rc.downsample_y)

\* The coverage thresholds of IteratePix8 / IteratePix16, the weight
\* coverage * (alpha * inv).
ThresholdRight(coverage, alpha, inv) ==
    Threshold(coverage, CoverageAlphaRight(coverage, alpha, inv))

\* Line branch of IteratePix8 / IteratePix16 once rot_x is known.
IterateLine(rc, inv, in, rot_x) ==
    IF rot_x <= -rc.edge_width THEN CopyStep
    ELSE IF rot_x >= rc.edge_width THEN FillStep
    ELSE ThresholdRight(HalfOfPlusOne(FMul(rot_x, rc.inv_edge_width)),
                        in.alpha, inv)

\* Circle branch of IteratePix8 / IteratePix16 once dist2 is known.
IterateCircle(rc, inv, in, dist2) ==
    IF dist2 >= rc.r_plus2 THEN CopyStep
    ELSE IF dist2 <= rc.r_minus2 THEN FillStep
    ELSE ThresholdRight(
             HalfOfPlusOne(FMul(FSub(rc.radius, Sqrtf(dist2)), rc.inv_edge_width)),
             in.alpha, inv)

\* Body shared by IteratePix8 and IteratePix16 (inv is INV_255 or INV_32768):
\* early exits on the rotated x or the squared distance, then the coverage
\* without a clamp.
IterateStepInt(rc, inv, x, y, in) ==
    IF in.alpha = 0 THEN CopyStep
    ELSE IF rc.mode = 1
    THEN IterateLine(rc, inv, in,
                     Rotated(IterateFx(rc, x), IterateFy(rc, y), rc.cs, rc.sn))
    ELSE IterateCircle(rc, inv, in, SumOfSquares(IterateFx(rc, x), IterateFy(rc, y)))

IteratePix8(rc, x, y, in) ==
    StorePixel("Int8", in, rc.color8, IterateStepInt(rc, INV_255, x, y, in))

IteratePix16(rc, x, y, in) ==
    StorePixel("Int16", in, Pix(rc.r16, rc.g16, rc.b16, 32768),
               IterateStepInt(rc, INV_32768, x, y, in))

\* The coverage thresholds of the Float32 kernels, the weight
\* coverage * alpha.
ThresholdFloat(coverage, alpha) == Threshold(coverage, FMul(coverage, alpha))

\* IteratePix32: cosf and sinf are called for every pixel, the coverage is
\* clamped, and the weight is coverage * in->alpha.
IterateStep32(rc, x, y, in) ==
    IF in.alpha <= FZero THEN CopyStep
    ELSE ThresholdFloat(
             CoverageClamped(SignedDist(rc.mode, IterateFx(rc, x), IterateFy(rc, y),
                                        Cosf(rc.angle), Sinf(rc.angle),
                                        rc.radius, rc.inv_edge_width)),
             in.alpha)

IteratePix32(rc, x, y, in) ==
    StorePixel("Float32", in, SolidColor("Float32", rc.color8),
               IterateStep32(rc, x, y, in))

\* The step of the callback of the request's format.
IterateStep(rq, x, y, in) ==
    CASE rq.format = "Int8" -> IterateStepInt(Refcon(rq), INV_255, x, y, in)
      [] rq.format = "Int16" -> IterateStepInt(Refcon(rq), INV_32768, x, y, in)
      [] OTHER -> IterateStep32(Refcon(rq), x, y, in)

\* The callback the host is handed for a format, with the refcon rc.
IterateCallback(fmt, rc, x, y, in) ==
    CASE fmt = "Int8" -> IteratePix8(rc, x, y, in)
      [] fmt = "Int16" -> IteratePix16(rc, x, y, in)
      [] OTHER -> IteratePix32(rc, x, y, in)

IteratePix(rq, x, y, in) == IterateCallback(rq.format, Refcon(rq), x, y, in)

\* ex = (rc.radius + rc.edge_width) / std::max(rc.downsample_x, 1e-6f).
AreaExtent(radius, ds) == FDiv(FAdd(radius, EdgeWidth), Max(ds, DownsampleFloor))

\* The lower bound taken on the far side of the anchor: floor(anchor + ex).
FloorLowMirrored(anchor, radius, ds) ==
    FFloor(FAdd(FromInt(anchor), AreaExtent(radius, ds)))

\* static_cast<int>(std::floor(rc.anchor_x - ex)) and
\* static_cast<int>(std::ceil(rc.anchor_x + ex)).
FloorLow(anchor, radius, ds) ==
    FFloor(FSub(FromInt(anchor), AreaExtent(radius, ds)))
CeilHigh(anchor, radius, ds) ==
    FCeil(FAdd(FromInt(anchor), AreaExtent(radius, ds)))

\* The PF_Rect handed to the host's iterate: the whole world, except that
\* Render8Iterate narrows it to the circle's bounding box.
CircleArea(rc) ==
    [left |-> Max(0, FloorLow(rc.anchor_x, rc.radius, rc.downsample_x)),
     right |-> Min(rc.width, CeilHigh(rc.anchor_x, rc.radius, rc.downsample_x) + 1),
     top |-> Max(0, FloorLow(rc.anchor_y, rc.radius, rc.downsample_y)),
     bottom |-> Min(rc.height, CeilHigh(rc.anchor_y, rc.radius, rc.downsample_y) + 1)]

IterateArea(rq) ==
    IF rq.format = "Int8" /\ rq.mode # 1
    THEN CircleArea(Refcon(rq))
    ELSE [left |-> 0, right |-> rq.width, top |-> 0, bottom |-> rq.height]

InArea(area, x, y) ==
    /\ area.left <= x /\ x < area.right
    /\ area.top <= y /\ y < area.bottom

\* ------------------------------------------------- accelerated pipeline
\* The angle of the loops and of the accelerated pipeline:
\* fmodf(angle, 360.0f) * (pi_f / 180.0f).
ReducedAngle(rq) == Radians(Fmodf360(rq.angle))

\* coverage(x, y) of SepColorHalide_Render8 and the weight cov_a of a pixel:
\* fx = (cast<float>(x) - ax) * dsx, hypot(fx, fy) = sqrt(fx * fx + fy * fy),
\* the coverage clamped, a = cast<float>(in_buf(x, y, 3)) / 255.0f and
\* cov_a = coverage(x, y) * a.  in_buf(x, y, c) is byte c of the four bytes
\* read as the pixel in, and a PF_Pixel is the bytes alpha, red, green, blue
\* in this order, so byte 3 is the blue field.  Every pixel is blended; there
\* is no shortcut.
HalideWeighted(cov, byte3) == Step("blend", cov, CoverageAlphaDivided(cov, byte3))

SepColorHalide_Step(rq, x, y, in) ==
    HalideWeighted(
        CoverageClamped(
            SignedDist(rq.mode,
                       FMul(FSub(FromInt(x), FromInt(rq.anchor_x)),
                            Downsample[rq.downsample_x]),
                       FMul(FSub(FromInt(y), FromInt(rq.anchor_y)),
                            Downsample[rq.downsample_y]),
                       Cosf(ReducedAngle(rq)), Sinf(ReducedAngle(rq)),
                       rq.radius, InvEdgeWidth)),
        in.blue)

\* Byte k of a PF_Pixel, and the PF_Pixel whose first byte is byte o of the
\* memory mem (a sequence of bytes, byte 0 first).
ByteOf(px, k) ==
    CASE k = 0 -> px.alpha
      [] k = 1 -> px.red
      [] k = 2 -> px.green
      [] OTHER -> px.blue

PixelAt(mem, o) == Pix(mem[o + 2], mem[o + 3], mem[o + 4], mem[o + 1])

\* The bytes of the input world of an Int8 request.
InputMemory(rq) ==
    [b \in 1..(rq.in_rowbytes * rq.height) |->
        ByteOf(InputElement(rq, (b - 1) \div 4), (b - 1) % 4)]

\* The strides SepColorHalide_Render8 sets on both Halide::Buffer<uint8_t>:
\* dim[0].stride = 4, dim[1].stride = output->rowbytes / sizeof(PF_Pixel),
\* dim[2].stride = 1.  The strides of a buffer of bytes count bytes, so
\* (x, y, c) is byte 4 * x + HalideRowStride(rq) * y + c of its world.
HalideRowStride(rq) == Stride(rq.out_rowbytes, "Int8")

\* The pixel the pipeline reads as in_buf(x, y, .) from an input world
\* distinct from the output.
HalideInput(rq, x, y) == PixelAt(InputMemory(rq), 4 * x + HalideRowStride(rq) * y)

\* ------------------------------------------------------------ manual loops
\* What a loop does to one pixel: write px, or leave the pixel alone
\* (a pass-through pixel of an in-place render is not written).
Write(px) == [wrote |-> TRUE, px |-> px]
\* A copy made also when the pixel is its own source.
CopyAlways(in_place, in) == [wrote |-> TRUE, px |-> in]

CopyUnless(in_place, in) == [wrote |-> ~in_place, px |-> in]

\* rx = (x - anchor_x) * downsample_x and ry = (y - anchor_y) * downsample_y:
\* the difference is an int.
LoopRx(rq, x) == FMul(FromInt(x - rq.anchor_x), Downsample[rq.downsample_x])
LoopRy(rq, y) == FMul(FromInt(y - rq.anchor_y), Downsample[rq.downsample_y])

\* coverage_alpha of a loop: Render8, Render16 and Render8Fast multiply
\* coverage * alpha * inv from the left, Render16Fast normalises the alpha
\* first, and the Float32 loops multiply coverage by the float alpha.
LoopWeight(rq, which, coverage, in) ==
    CASE rq.format = "Float32" -> FMul(coverage, in.alpha)
      [] rq.format = "Int8" -> CoverageAlphaLeft(coverage, in.alpha, INV_255)
      [] OTHER -> IF which = "fast"
                  THEN CoverageAlphaRight(coverage, in.alpha, INV_32768)
                  ELSE CoverageAlphaLeft(coverage, in.alpha, INV_32768)

\* The coverage thresholds of a loop with the weight of its format.
LoopThreshold(rq, which, coverage, in) ==
    Threshold(coverage, LoopWeight(rq, which, coverage, in))

\* Inner-loop body of Render8 / Render16 / Render32: the signed distance is
\* computed afresh for every pixel and clamped.
LoopStep(rq, x, y, in) ==
    IF IsTransparent(rq.format, in) THEN CopyStep
    ELSE LoopThreshold(rq, "baseline",
                       CoverageOfClamped(
                           SignedDist(rq.mode, LoopRx(rq, x), LoopRy(rq, y),
                                      Cosf(ReducedAngle(rq)), Sinf(ReducedAngle(rq)),
                                      rq.radius, InvEdgeWidth)),
                       in)

\* The store of a loop: a pass-through pixel of an in-place render is skipped.
LoopStore(rq, in, s) ==
    IF s.kind = "copy" THEN CopyUnless(rq.in_place, in)
    ELSE Write(StorePixel(rq.format, in, SolidColor(rq.format, rq.color), s))

LoopPixel(rq, x, y, in) == LoopStore(rq, in, LoopStep(rq, x, y, in))

\* rx * cs + ry_sn of a row of a Fast loop, Line, at column x: rot_x0 at
\* column 0, rot_xN at column width - 1.
RowRotX(rq, x, y) ==
    Rotated(LoopRx(rq, x), LoopRy(rq, y), Cosf(ReducedAngle(rq)), Sinf(ReducedAngle(rq)))

\* rotated_x at column x of a Fast loop: rot_x0 after x executions of
\* rotated_x += rot_dx, rot_dx = downsample_x * cs.
RECURSIVE RotatedXAt(_, _, _)
RotatedXAt(rot_x0, rot_dx, x) ==
    IF x = 0 THEN rot_x0 ELSE FAdd(RotatedXAt(rot_x0, rot_dx, x - 1), rot_dx)

\* <<rx, dist2>> at column x of a Fast loop, Circle: rx = rx0 and
\* dist2 = rx * rx + ry2, then x executions of
\* rx += dx; dist2 += twodx * (rx - dx) + dx2.
CircleStep(before, dx) ==
    <<FAdd(before[1], dx),
      FAdd(before[2],
           FAdd(FMul(FMul(FTwo, dx), FSub(FAdd(before[1], dx), dx)), Square(dx)))>>
RECURSIVE CircleAt(_, _, _, _)
CircleAt(rx0, ry2, dx, x) ==
    IF x = 0 THEN <<rx0, FAdd(Square(rx0), ry2)>>
    ELSE CircleStep(CircleAt(rx0, ry2, dx, x - 1), dx)

\* Row-level early-out of the Fast loops, Line: on the rotated x of the two
\* ends of the row.
RowLine(rot_x0, rot_xN) ==
    IF Max(rot_x0, rot_xN) <= -EdgeWidth THEN "copy"
    ELSE IF Min(rot_x0, rot_xN) >= EdgeWidth THEN "fill"
    ELSE "none"

\* Row-level early-out of the Fast loops, Circle: on the least and the
\* greatest squared distance of the row.
RowCircle(rq, dist2_min, dist2_max) ==
    IF dist2_min >= Square(FAdd(rq.radius, EdgeWidth)) THEN "copy"
    ELSE IF dist2_max <= Square(FSub(rq.radius, EdgeWidth)) THEN "fill"
    ELSE "none"
\* dist2_min is ry2 when the anchor's column lies in the row, else the lesser
\* of the squared distances at rx_min and rx_max; dist2_max is the greater.
RowEnds(rq, ry2, rx_min, rx_max) ==
    RowCircle(rq,
              IF rq.anchor_x >= 0 /\ rq.anchor_x < rq.width
              THEN ry2
              ELSE Min(FAdd(Square(rx_min), ry2), FAdd(Square(rx_max), ry2)),
              Max(FAdd(Square(rx_min), ry2), FAdd(Square(rx_max), ry2)))

\* Row-level early-out of the Fast loops: "copy", "fill" or "none".
RowEarlyOut(rq, y) ==
    IF rq.mode = 1
    THEN RowLine(RowRotX(rq, 0, y), RowRotX(rq, rq.width - 1, y))
    ELSE RowEnds(rq, Square(LoopRy(rq, y)),
                 Min(LoopRx(rq, 0), LoopRx(rq, rq.width - 1)),
                 Max(LoopRx(rq, 0), LoopRx(rq, rq.width - 1)))

\* Line branch of the inner loop of a Fast loop once rotated_x is known:
\* Render8Fast has two more exits on rotated_x.
FastLine(rq, in, rotated_x) ==
    IF rq.format = "Int8" /\ rotated_x <= -EdgeWidth THEN CopyStep
    ELSE IF rq.format = "Int8" /\ rotated_x >= EdgeWidth THEN FillStep
    ELSE LoopThreshold(rq, "fast", CoverageOfClamped(FMul(rotated_x, InvEdgeWidth)), in)

\* Circle branch of the inner loop of a Fast loop once dist2 is known.
FastCircle(rq, in, dist2) ==
    LoopThreshold(rq, "fast",
                  CoverageOfClamped(FMul(FSub(rq.radius, Sqrtf(dist2)), InvEdgeWidth)),
                  in)

\* Inner-loop body of Render8Fast / Render16Fast / Render32Fast at column x:
\* rotated_x and dist2 are carried along the row.
FastInnerStep(rq, x, y, in) ==
    IF IsTransparent(rq.format, in) THEN CopyStep
    ELSE IF rq.mode = 1
    THEN FastLine(rq, in,
                  RotatedXAt(RowRotX(rq, 0, y),
                             FMul(Downsample[rq.downsample_x], Cosf(ReducedAngle(rq))),
                             x))
    ELSE FastCircle(rq, in,
                    CircleAt(LoopRx(rq, 0), Square(LoopRy(rq, y)),
                             Downsample[rq.downsample_x], x)[2])

\* One pixel of a row whose row-level early-out gave row.
FastRow(rq, x, y, in, row) ==
    CASE row = "copy" -> CopyStep
      [] row = "fill" -> FillStep
      [] OTHER -> FastInnerStep(rq, x, y, in)

\* One pixel of a row of Render8Fast / Render16Fast / Render32Fast.
FastStep(rq, x, y, in) == FastRow(rq, x, y, in, RowEarlyOut(rq, y))

FastPixel(rq, x, y, in) == LoopStore(rq, in, FastStep(rq, x, y, in))

\* ================================================================== state
VARIABLES
    build,      \* the preprocessor switches this plug-in was compiled with
    pc,         \* where the host's current command is
    req,        \* the request of the render in progress
    out,        \* the output world's pixels
    written,    \* the pixels this render has stored into the output world
    attempts,   \* the backends this render has called, in order
    backend,    \* the backend running, then the one that returned
    iter,       \* the calls of the pixel callback the host's iterate has made
    workers,    \* the threads of the manual loop
    hw,         \* std::thread::hardware_concurrency() as the manual loop read it
    abort,      \* whether the host's abort query now answers "cancelled"
    err,        \* PF_Err of the render
    session,    \* what EffectMain's command handlers have done since the load
    calc        \* the last function applied on its own, with input and result

vars == <<build, pc, req, out, written, attempts, backend, iter, workers, hw, abort, err,
          session, calc>>

\* The variables of a render.
RenderVars == <<build, pc, req, out, written, attempts, backend, iter, workers, hw,
                abort, err>>

\* Switch settings that compile and give different Render functions.
\* SEP_COLOR_USE_BASELINE overrides the other two.  Without it, a setting
\* with SEP_COLOR_ENABLE_HALIDE (the defaults are one) does not compile: Render
\* calls SepColorHalide_Render8 / 16 / 32 with six arguments and they take
\* seven, the capability state among them, which sep_color.cpp does not hold.
Builds ==
    {b \in [USE_BASELINE : BOOLEAN, ENABLE_HALIDE : BOOLEAN, USE_PF_ITERATE : BOOLEAN] :
        /\ b.USE_BASELINE => (b.ENABLE_HALIDE /\ b.USE_PF_ITERATE)
        /\ ~b.USE_BASELINE => ~b.ENABLE_HALIDE}

\* SepColorHalideGlobalState{}: both flags false.
NoState == [runtime_loaded |-> FALSE, gpu_enabled |-> FALSE, target |-> "default"]

NoRequest == [format |-> "Int8", width |-> 0, height |-> 0, in_rowbytes |-> 0,
              out_rowbytes |-> 0, padding |-> Pix(0, 0, 0, 0), mode |-> 1, angle |-> 0,
              radius |-> FZero, anchor_x |-> 0, anchor_y |-> 0, downsample_x |-> 1,
              downsample_y |-> 1, color |-> Pix(0, 0, 0, 0), pattern |-> 0,
              in_place |-> TRUE]

\* An output world distinct from the input arrives cleared; the world of an
\* in-place render holds the input.
ClearPixel == Pix(0, 0, 0, 0)
InitialOutput(rq) ==
    [c \in Coords(rq) |-> IF rq.in_place THEN SourcePixel(rq, c[1], c[2]) ELSE ClearPixel]

\* PF_Err values: PF_Err_NONE, the value PF_ABORT answers with once the host
\* was cancelled (PF_Interrupt_CANCEL), and the values the host's iterate may
\* return when it stops early: PF_Interrupt_CANCEL, PF_Err_OUT_OF_MEMORY or
\* another code.
PF_Err_NONE == 0
PF_Err_OUT_OF_MEMORY == 4
PF_Interrupt_CANCEL == 517
HostErrors == {3, PF_Err_OUT_OF_MEMORY, PF_Interrupt_CANCEL}

\* Nothing handled yet; no function applied yet.
NoSession == [setup |-> FALSE, probes |-> 0, releases |-> 0, renders |-> 0, closed |-> FALSE]
NoCalc == [fn |-> "none"]

Init ==
    /\ build \in Builds
    /\ pc = "idle"
    /\ req = NoRequest
    /\ out = <<>>
    /\ written = {}
    /\ attempts = <<>>
    /\ backend = "none"
    /\ iter = 0
    /\ workers = <<>>
    /\ hw = 0
    /\ abort = FALSE
    /\ err = PF_Err_NONE
    /\ session = NoSession
    /\ calc = NoCalc

\* ------------------------------------------------- accelerator lifecycle
\* SepColorHalide_GlobalInit on state st: enabled is SEP_COLOR_ENABLE_HALIDE,
\* loader_ok the answer of EnsureHalideRuntimeLoaded, probe_ok whether the
\* build has SEP_COLOR_HALIDE_GPU and its probe pipeline ran without throwing.
\* Without Halide the state is left alone.
GlobalInitResult(enabled, loader_ok, probe_ok, st) ==
    IF ~enabled THEN [state |-> st, returned |-> FALSE]
    ELSE IF ~loader_ok THEN [state |-> NoState, returned |-> FALSE]
    ELSE [state |-> [runtime_loaded |-> TRUE, gpu_enabled |-> probe_ok,
                     target |-> IF probe_ok THEN "gpu" ELSE "host"],
          returned |-> TRUE]

\* A release that does not look at runtime_loaded.
GlobalReleaseAlways(enabled, st) ==
    [state |-> IF enabled THEN NoState ELSE st, released |-> enabled]

\* SepColorHalide_GlobalRelease on state st: release_all() if the runtime is
\* loaded, then state = {}.
GlobalReleaseResult(enabled, st) ==
    IF enabled
    THEN [state |-> NoState, released |-> st.runtime_loaded]
    ELSE [state |-> st, released |-> FALSE]

\* ------------------------------------------------------------- dispatcher
\* EffectMain(PF_Cmd_RENDER) enters Render with the host's worlds and params.
RenderStart ==
    /\ pc = "idle"
    /\ \E rq \in Requests :
        /\ IsRequest(rq)
        /\ req' = rq
        /\ out' = InitialOutput(rq)
    /\ pc' = "render"
    /\ written' = {}
    /\ attempts' = <<>>
    /\ backend' = "none"
    /\ iter' = 0
    /\ workers' = <<>>
    /\ hw' = 0
    /\ abort' = FALSE
    /\ err' = PF_Err_NONE
    /\ UNCHANGED <<build, session, calc>>

\* The one call the #if chain of Render leaves in a build: Render8 / 16 / 32
\* with SEP_COLOR_USE_BASELINE, else Render8Iterate / 16 / 32 with
\* SEP_COLOR_USE_PF_ITERATE, else Render8Fast / 16Fast / 32Fast.
RenderCalls(b) ==
    IF b.USE_BASELINE THEN "baseline"
    ELSE IF b.USE_PF_ITERATE THEN "iterate" ELSE "fast"

\* Render chooses the format and calls the function of the build.
RenderDispatch ==
    /\ pc = "render"
    /\ pc' = RenderCalls(build)
    /\ UNCHANGED <<build, req, out, written, attempts, backend, iter, workers, hw, abort, err>>
    /\ UNCHANGED <<session, calc>>

\* The host's abort condition turns on while a render runs.
HostAbort ==
    /\ pc \in {"iterate", "host", "fast", "baseline", "workers"}
    /\ ~abort
    /\ abort' = TRUE
    /\ UNCHANGED <<build, pc, req, out, written, attempts, backend, iter, workers, hw, err>>
    /\ UNCHANGED <<session, calc>>

\* --------------------------------------------------- accelerated functions
\* A pipeline for the Int16 worlds too.
HasPipelineDeep(fmt) == fmt \in {"Int8", "Int16"}

\* The formats SepColorHalide_Render8 / 16 / 32 have a pipeline for: the
\* Int16 and Float32 functions only return false.
HasPipeline(fmt) == fmt = "Int8"

\* SepColorHalide_Render8 / 16 / 32 called with the capability state st on the
\* worlds and parameters of rq: what it returns, the output world after it and
\* the pixels it stored.  enabled is SEP_COLOR_ENABLE_HALIDE.  A world without
\* pixels is reported as done before the pipeline is built.  For a world with
\* pixels the function builds the pipeline, and the first definition of out,
\* out(x, y, 0) = ..., has a constant where an initial definition takes a Var:
\* Halide raises an error there, before anything is scheduled or realized
\* (whatever st.gpu_enabled and st.target are), the function catches it and
\* returns false, and no world is read or written.
SepColorHalide_Render(enabled, st, rq) ==
    IF ~enabled \/ ~HasPipeline(rq.format) \/ ~st.runtime_loaded
    THEN [returned |-> FALSE, out |-> InitialOutput(rq), written |-> {}]
    ELSE [returned |-> (rq.width <= 0 \/ rq.height <= 0), out |-> InitialOutput(rq),
          written |-> {}]

\* The capability states SepColorHalide_GlobalInit leaves, and the state
\* that was never initialised.
CapabilityStates ==
    {GlobalInitResult(TRUE, loader_ok, probe_ok, NoState).state :
        loader_ok \in BOOLEAN, probe_ok \in BOOLEAN}

\* SepColorHalide_Render8 / 16 / 32 applied on their own, as a caller that
\* holds a capability state would call them; Render is no such caller.
ApplyAccelerated ==
    /\ calc = NoCalc
    /\ \E rq \in {q \in Requests : IsRequest(q)}, enabled \in BOOLEAN,
          st \in CapabilityStates :
          LET r == SepColorHalide_Render(enabled, st, rq)
          IN calc' = [fn |-> "SepColorHalide_Render", enabled |-> enabled, state |-> st,
                      rq |-> rq, returned |-> r.returned, out |-> r.out,
                      written |-> r.written]
    /\ UNCHANGED <<RenderVars, session>>

\* ----------------------------------------------------------- host iterate
\* The PF_Rect handed to the host holds AreaCount pixels; the host visits
\* them row by row, AreaPixel(area, n) being the n-th (from 0).
AreaCount(area) ==
    Max(0, area.right - area.left) * Max(0, area.bottom - area.top)

AreaPixel(area, n) ==
    <<area.left + (n % (area.right - area.left)),
      area.top + (n \div (area.right - area.left))>>

\* Render8Iterate / Render16Iterate / Render32Iterate up to the call of the
\* host's iterate suite: the refcon and the area are built, nothing is stored.
IterateStart ==
    /\ pc = "iterate"
    /\ pc' = "host"
    /\ attempts' = Append(attempts, "iterate")
    /\ backend' = "iterate"
    /\ iter' = 0
    /\ UNCHANGED <<build, req, out, written, workers, hw, abort, err>>
    /\ UNCHANGED <<session, calc>>

\* The host's iterate calls the pixel callback on the next pixel of the area,
\* handing it the pixel of the input world and the pixel of the output world.
HostCalls(c) ==
    /\ out' = [out EXCEPT ![c] = IteratePix(req, c[1], c[2], SourcePixel(req, c[1], c[2]))]
    /\ written' = written \cup {c}

HostCallback ==
    /\ pc = "host"
    /\ iter < AreaCount(IterateArea(req))
    /\ HostCalls(AreaPixel(IterateArea(req), iter))
    /\ iter' = iter + 1
    /\ UNCHANGED <<build, pc, req, attempts, backend, workers, hw, abort, err>>
    /\ UNCHANGED <<session, calc>>

\* The host's iterate returns and Render8Iterate / 16 / 32 return its PF_Err
\* as it is: PF_Err_NONE after the last pixel, or an error at any point (the
\* cancellation only once the host was cancelled).
HostReturn ==
    /\ pc = "host"
    /\ \E e \in {PF_Err_NONE} \cup HostErrors :
          /\ e = PF_Err_NONE => iter = AreaCount(IterateArea(req))
          /\ e = PF_Interrupt_CANCEL => abort
          /\ err' = e
    /\ pc' = "done"
    /\ UNCHANGED <<build, req, out, written, attempts, backend, iter, workers, hw, abort>>
    /\ UNCHANGED <<session, calc>>

\* ------------------------------------------------------------ manual loop
\* num_threads: Render8Fast / 16Fast / 32Fast cap it by the height, the
\* baseline Render8 / 16 / 32 do not.
NumThreads(cores, height, capped) ==
    IF capped THEN Min(Max(1, cores), Max(1, height)) ELSE Max(1, cores)

\* A split that rounds the rows per thread down.
RowsPerThreadFloor(height, num_threads) == height \div num_threads

\* rows_per_thread = (height + num_threads - 1) / num_threads.
RowsPerThread(height, num_threads) == (height + num_threads - 1) \div num_threads

\* The threads the spawning loop starts: thread t gets [start_y, end_y) when
\* start_y < height.
RECURSIVE SpawnFrom(_, _, _, _)
SpawnFrom(t, num_threads, rows_per_thread, height) ==
    IF t >= num_threads THEN <<>>
    ELSE LET start_y == t * rows_per_thread
             end_y == Min(start_y + rows_per_thread, height)
             rest == SpawnFrom(t + 1, num_threads, rows_per_thread, height)
         IN IF start_y < height
            THEN <<[t |-> t, start_y |-> start_y, end_y |-> end_y, y |-> start_y,
                    polls |-> 0, rows |-> 0, returned |-> FALSE,
                    wrote_err |-> FALSE]>> \o rest
            ELSE rest

Spawn(cores, height, capped) ==
    SpawnFrom(0, NumThreads(cores, height, capped),
              RowsPerThread(height, NumThreads(cores, height, capped)), height)

\* Whether process_rows of this loop calls PF_ABORT at the top of each row.
PollsAbort(rq, which) == which = "fast" /\ rq.format \in {"Int16", "Float32"}

\* Render8Fast / 16Fast / 32Fast or Render8 / 16 / 32 up to the end of the
\* loop that starts the threads; hardware_concurrency() is read here (it
\* returns 0 when the count cannot be determined).
StartThreads ==
    /\ pc \in {"fast", "baseline"}
    /\ attempts' = Append(attempts, pc)
    /\ backend' = pc
    /\ \E n \in 0..MaxThreads :
          /\ hw' = n
          /\ workers' = Spawn(n, req.height, pc = "fast")
    /\ pc' = "workers"
    /\ UNCHANGED <<build, req, out, written, iter, abort, err>>
    /\ UNCHANGED <<session, calc>>

\* The pixel a manual loop computes at (x, y).
ManualPixel(rq, which, x, y) ==
    IF which = "fast"
    THEN FastPixel(rq, x, y, InputPixel(rq, x, y))
    ELSE LoopPixel(rq, x, y, InputPixel(rq, x, y))

\* The row's pixels as the loop leaves them, by x.
ManualRow(rq, which, y) == [x \in 0..(rq.width - 1) |-> ManualPixel(rq, which, x, y)]

\* The output world and the pixels stored after row y was left as row.
RowImage(rq, row, old, y) ==
    [c \in Coords(rq) |->
        IF c[2] = y /\ row[c[1]].wrote THEN row[c[1]].px ELSE old[c]]

RowWritten(rq, row, y) == {c \in Coords(rq) : c[2] = y /\ row[c[1]].wrote}

\* One iteration of the for loop of process_rows in thread i, or its exit.
ProcessRow(i) ==
    /\ pc = "workers"
    /\ i \in DOMAIN workers
    /\ ~workers[i].returned
    /\ LET w == workers[i]
       IN IF w.y >= w.end_y
          THEN /\ workers' = [workers EXCEPT ![i].returned = TRUE]
               /\ UNCHANGED <<out, written, err>>
          ELSE IF PollsAbort(req, backend) /\ abort
          THEN /\ workers' = [workers EXCEPT ![i].returned = TRUE,
                                             ![i].polls = w.polls + 1,
                                             ![i].wrote_err = TRUE]
               /\ err' = PF_Interrupt_CANCEL
               /\ UNCHANGED <<out, written>>
          ELSE LET row == ManualRow(req, backend, w.y)
               IN /\ workers' = [workers EXCEPT
                                   ![i].y = w.y + 1,
                                   ![i].rows = w.rows + 1,
                                   ![i].polls = w.polls
                                       + (IF PollsAbort(req, backend) THEN 1 ELSE 0)]
                  /\ out' = RowImage(req, row, out, w.y)
                  /\ written' = written \cup RowWritten(req, row, w.y)
                  /\ UNCHANGED err
    /\ UNCHANGED <<build, pc, req, attempts, backend, iter, hw, abort>>
    /\ UNCHANGED <<session, calc>>

\* A return that does not wait for the started threads.
JoinThreadsDetached ==
    /\ pc = "workers"
    /\ pc' = "done"
    /\ UNCHANGED <<build, req, out, written, attempts, backend, iter, workers, hw, abort, err>>
    /\ UNCHANGED <<session, calc>>

\* thread.join() for every started thread, then return err.
JoinThreads ==
    /\ pc = "workers"
    /\ \A i \in DOMAIN workers : workers[i].returned
    /\ pc' = "done"
    /\ UNCHANGED <<build, req, out, written, attempts, backend, iter, workers, hw, abort, err>>
    /\ UNCHANGED <<session, calc>>

\* Render returns err to EffectMain, which returns it to the host.
RenderReturn ==
    /\ pc = "done"
    /\ pc' = "idle"
    /\ req' = NoRequest
    /\ out' = <<>>
    /\ written' = {}
    /\ attempts' = <<>>
    /\ backend' = "none"
    /\ iter' = 0
    /\ workers' = <<>>
    /\ hw' = 0
    /\ abort' = FALSE
    /\ err' = PF_Err_NONE
    /\ UNCHANGED <<build, session, calc>>

Next ==
    \/ RenderStart
    \/ RenderDispatch
    \/ HostAbort
    \/ IterateStart
    \/ HostCallback
    \/ HostReturn
    \/ StartThreads
    \/ \E i \in 1..MaxThreads : ProcessRow(i)
    \/ JoinThreads
    \/ RenderReturn

Spec == Init /\ [][Next]_vars

\* ---------------------------------------------------------- host session
\* A session as the host drives it through EffectMain: global setup, then
\* renders, then global setdown.  session.probes and session.releases count
\* the calls of SepColorHalide_GlobalInit and SepColorHalide_GlobalRelease
\* made by the command handlers; the capability state changes only through
\* such calls.

\* EffectMain(PF_Cmd_GLOBAL_SETUP) -> GlobalSetup: sets my_version, out_flags
\* and out_flags2 and returns; it makes no call on the capability state.
GlobalSetup ==
    /\ pc = "idle"
    /\ ~session.setup /\ ~session.closed
    /\ session' = [session EXCEPT !.setup = TRUE]
    /\ UNCHANGED <<RenderVars, calc>>

\* EffectMain(PF_Cmd_RENDER) in a session that was set up and not closed.
SessionRender ==
    /\ session.setup /\ ~session.closed
    /\ session.renders < MaxRenders
    /\ RenderStart

\* Render returns in a session: one more render is complete.
SessionRenderReturn ==
    /\ pc = "done"
    /\ pc' = "idle"
    /\ req' = NoRequest
    /\ out' = <<>>
    /\ written' = {}
    /\ attempts' = <<>>
    /\ backend' = "none"
    /\ iter' = 0
    /\ workers' = <<>>
    /\ hw' = 0
    /\ abort' = FALSE
    /\ err' = PF_Err_NONE
    /\ session' = [session EXCEPT !.renders = session.renders + 1]
    /\ UNCHANGED <<build, calc>>

\* EffectMain(PF_Cmd_GLOBAL_SETDOWN): the switch has no case for it, so
\* EffectMain returns PF_Err_NONE and nothing else happens; the host then
\* unloads the plug-in.
GlobalSetdown ==
    /\ pc = "idle"
    /\ session.setup /\ ~session.closed
    /\ session' = [session EXCEPT !.closed = TRUE]
    /\ UNCHANGED <<RenderVars, calc>>

NextSession ==
    \/ GlobalSetup
    \/ SessionRender
    \/ RenderDispatch
    \/ HostAbort
    \/ IterateStart
    \/ HostCallback
    \/ HostReturn
    \/ StartThreads
    \/ \E i \in 1..MaxThreads : ProcessRow(i)
    \/ JoinThreads
    \/ SessionRenderReturn
    \/ GlobalSetdown

SpecSession == Init /\ [][NextSession]_vars

\* ------------------------------------------------------ worked scenarios
\* The two renders the documentation works through, on every backend: a
\* Circle of radius 1 about (2, 2) on an opaque 4x4 Int8 image, and a Line at
\* angle 0 through (0, 0).  Both worlds have rows without padding.
CircleScenario(in_place) ==
    [format |-> "Int8", width |-> 4, height |-> 4, in_rowbytes |-> 16,
     out_rowbytes |-> 16, padding |-> Pix(0, 0, 0, 0), mode |-> 2, angle |-> 0,
     radius |-> Radius(2), anchor_x |-> 2, anchor_y |-> 2, downsample_x |-> 1,
     downsample_y |-> 1, color |-> Pix(255, 0, 0, 255), pattern |-> OpaquePattern,
     in_place |-> in_place]

LineScenario(fmt, height, in_place) ==
    [format |-> fmt, width |-> MaxWidth, height |-> height,
     in_rowbytes |-> PixelBytes(fmt) * MaxWidth,
     out_rowbytes |-> PixelBytes(fmt) * MaxWidth, padding |-> Pix(0, 0, 0, 0),
     mode |-> 1, angle |-> 0, radius |-> Radius(0), anchor_x |-> 0, anchor_y |-> 0, downsample_x |-> 1,
     downsample_y |-> 1, color |-> Pix(255, 0, 0, 255), pattern |-> 0,
     in_place |-> in_place]

Scenarios ==
    {CircleScenario(p) : p \in BOOLEAN}
        \cup {LineScenario(f, h, p) : f \in Formats, h \in 1..MaxHeight, p \in BOOLEAN}

\* EffectMain(PF_Cmd_RENDER) with the worlds and parameters of a scenario.
ScenarioStart ==
    /\ pc = "idle"
    /\ \E rq \in Scenarios :
        /\ req' = rq
        /\ out' = InitialOutput(rq)
    /\ pc' = "render"
    /\ written' = {}
    /\ attempts' = <<>>
    /\ backend' = "none"
    /\ iter' = 0
    /\ workers' = <<>>
    /\ hw' = 0
    /\ abort' = FALSE
    /\ err' = PF_Err_NONE
    /\ UNCHANGED <<build, session, calc>>

NextScenario ==
    \/ ScenarioStart
    \/ RenderDispatch
    \/ HostAbort
    \/ IterateStart
    \/ HostCallback
    \/ HostReturn
    \/ StartThreads
    \/ \E i \in 1..MaxThreads : ProcessRow(i)
    \/ JoinThreads
    \/ RenderReturn

SpecScenario == Init /\ [][NextScenario]_vars

\* ------------------------------------------------- functions on their own
\* The functions of the render paths applied to inputs drawn from ranges
\* wider than the images above can carry; nothing is rendered here.
InitFunctions ==
    /\ Init
    /\ build.USE_BASELINE

\* Circle requests of Render8Iterate whose anchor lies up to MaxAnchor pixels
\* outside the world on either side.
AreaRequests ==
    [format : {"Int8"},
     width : {MaxWidth},
     height : {MaxHeight},
     in_rowbytes : {PixelBytes("Int8") * MaxWidth},
     out_rowbytes : {PixelBytes("Int8") * MaxWidth},
     padding : {Pix(0, 0, 0, 0)},
     mode : {2},
     angle : {0},
     radius : Radii \cup {Radius(1)},
     anchor_x : (-MaxAnchor)..(MaxWidth + MaxAnchor),
     anchor_y : (-MaxAnchor)..(MaxHeight + MaxAnchor),
     downsample_x : Downsamples,
     downsample_y : Downsamples,
     color : Colors,
     pattern : {0},
     in_place : {FALSE}]

\* Render8Iterate up to the call of the host's iterate: the PF_Rect it built.
ApplyIterateArea ==
    /\ calc = NoCalc
    /\ \E rq \in AreaRequests :
          calc' = [fn |-> "IterateArea", rq |-> rq, area |-> IterateArea(rq)]
    /\ UNCHANGED <<RenderVars, session>>

\* Channel values, alphas and coverages the blend functions are applied to.
BlendSamples(fmt) ==
    CASE fmt = "Int8" -> {0, 1, 41, 128, 200, 254, 255}
      [] fmt = "Int16" -> {0, 1, 4000, 16384, 32767, 32768}
      [] OTHER -> {FZero, Lit(1, 10), FHalf, Lit(3, 4), FOne}

AlphaSamples(fmt) ==
    CASE fmt = "Int8" -> {0, 1, 128, 255}
      [] fmt = "Int16" -> {0, 1, 16384, 32768}
      [] OTHER -> {FZero, FHalf, FOne}

CoverageSamples == {Lit(i, BlendSteps) : i \in 0..BlendSteps}

\* coverage_alpha of a coverage and an input alpha, as a kernel of the format
\* forms it: the integer kernels in one of two ways, "left" or "right".
WeightOf(fmt, form, coverage, alpha) ==
    CASE fmt = "Float32" -> FMul(coverage, alpha)
      [] fmt = "Int8" -> IF form = "left"
                         THEN CoverageAlphaLeft(coverage, alpha, INV_255)
                         ELSE CoverageAlphaRight(coverage, alpha, INV_255)
      [] OTHER -> IF form = "left"
                  THEN CoverageAlphaLeft(coverage, alpha, INV_32768)
                  ELSE CoverageAlphaRight(coverage, alpha, INV_32768)

\* FastBlend, FastBlend16 or FastBlendFloat by pixel format.
FastBlendOf(fmt, src, dst, coverage_alpha) ==
    CASE fmt = "Int8" -> FastBlend(src, dst, coverage_alpha)
      [] fmt = "Int16" -> FastBlend16(src, dst, coverage_alpha)
      [] OTHER -> FastBlendFloat(src, dst, coverage_alpha)

\* One blend function applied to the same channel pair at two effective
\* coverages, the second at least the first in both factors.  before2 is the
\* float the second call narrows (for Float32, the float it returns).
ApplyFastBlend ==
    /\ calc = NoCalc
    /\ \E fmt \in Formats, form \in {"left", "right"} :
       \E src \in BlendSamples(fmt), dst \in BlendSamples(fmt) :
       \E c1 \in CoverageSamples, c2 \in CoverageSamples :
       \E a1 \in AlphaSamples(fmt), a2 \in AlphaSamples(fmt) :
          /\ c1 <= c2 /\ a1 <= a2
          /\ fmt = "Float32" => form = "left"
          /\ LET w1 == WeightOf(fmt, form, c1, a1)
                 w2 == WeightOf(fmt, form, c2, a2)
             IN calc' = [fn |-> "FastBlend", format |-> fmt, form |-> form,
                         src |-> src, dst |-> dst,
                         coverage1 |-> c1, alpha1 |-> a1, weight1 |-> w1,
                         coverage2 |-> c2, alpha2 |-> a2, weight2 |-> w2,
                         result1 |-> FastBlendOf(fmt, src, dst, w1),
                         result2 |-> FastBlendOf(fmt, src, dst, w2),
                         before2 |-> IF fmt = "Float32"
                                     THEN FastBlendFloat(src, dst, w2)
                                     ELSE BeforeCast(src, dst, w2)]
    /\ UNCHANGED <<RenderVars, session>>

\* The Int16 colour of two 8-bit UI colour values as Render16Iterate puts it
\* in the refcon (r16) and as Render16 and Render16Fast compute it (color16).
ApplyColor16 ==
    /\ calc = NoCalc
    /\ \E c1 \in 0..255, c2 \in 0..255 :
          /\ c1 <= c2
          /\ calc' = [fn |-> "Color16", c1 |-> c1, c2 |-> c2,
                       r16 |-> <<Refcon([NoRequest EXCEPT !.format = "Int16",
                                                            !.color = Pix(c1, c1, c1, 255)]).r16,
                                 Refcon([NoRequest EXCEPT !.format = "Int16",
                                                            !.color = Pix(c2, c2, c2, 255)]).r16>>,
                       color16 |-> <<SolidColor("Int16", Pix(c1, c1, c1, 255)).red,
                                     SolidColor("Int16", Pix(c2, c2, c2, 255)).red>>]
    /\ UNCHANGED <<RenderVars, session>>

\* Host angles in degrees: negative, zero, below and beyond a full turn.
AngleSamples == {-450, -360, -270, -90, 0, 90, 180, 270, 360, 450, 720}

\* The angle in radians a backend hands to cosf and sinf: the host-iterate
\* functions convert params[ID_ANGLE] >> 16 as it is, the loops and the
\* accelerated pipeline convert its fmodf(., 360).
TrigAngle(which, rq) ==
    IF which = "iterate" THEN Refcon(rq).angle ELSE ReducedAngle(rq)

\* A Render function up to the computation of its angle and of the cosine
\* and sine of it.
ApplyAngle ==
    /\ calc = NoCalc
    /\ \E a \in AngleSamples, which \in {"accelerated", "iterate", "fast", "baseline"},
          fmt \in Formats :
          LET radians == TrigAngle(which, [NoRequest EXCEPT !.format = fmt, !.angle = a])
          IN calc' = [fn |-> "Angle", backend |-> which, format |-> fmt, angle |-> a,
                      radians |-> radians, cs |-> Cosf(radians), sn |-> Sinf(radians)]
    /\ UNCHANGED <<RenderVars, session>>

\* Requests on an opaque image: every width up to MaxWidth, anchors inside
\* and beside the world, every radius from 0.
EarlyOutRequests ==
    {rq \in UNION {[format : {fmt}, width : 1..MaxWidth, height : {MaxHeight},
                    in_rowbytes : {PixelBytes(fmt) * MaxWidth},
                    out_rowbytes : {PixelBytes(fmt) * MaxWidth},
                    padding : {Pix(0, 0, 0, 0)},
                    mode : {1, 2}, angle : Angles, radius : Radii \cup {Radius(1)},
                    anchor_x : (-1)..MaxWidth, anchor_y : {0, 1},
                    downsample_x : Downsamples, downsample_y : Downsamples,
                    color : Colors, pattern : {OpaquePattern},
                    in_place : {FALSE}] : fmt \in Formats} :
        /\ rq.downsample_x = rq.downsample_y
        /\ rq.mode = 1 => rq.radius = Radius(0)
        /\ rq.mode # 1 => rq.angle = 0}

\* The analytic per-pixel rule of a backend: the signed distance computed
\* afresh from the pixel's coordinates with the backend's angle, the clamped
\* coverage of it, the two fast exits on the coverage, and the backend's
\* weight.
AnalyticStep(rq, which, x, y, in) ==
    LET rx == LoopRx(rq, x)
        ry == LoopRy(rq, y)
        angle == TrigAngle(which, rq)
        sd == IF rq.mode = 1
              THEN FMul(FAdd(FMul(rx, Cosf(angle)), FMul(ry, Sinf(angle))), InvEdgeWidth)
              ELSE FMul(FSub(rq.radius, Sqrtf(FAdd(FMul(rx, rx), FMul(ry, ry)))),
                        InvEdgeWidth)
        coverage == CoverageClamped(sd)
    IN Threshold(coverage,
                 IF which = "iterate" /\ rq.format # "Float32"
                 THEN CoverageAlphaRight(coverage, in.alpha,
                                         IF rq.format = "Int8" THEN INV_255 ELSE INV_32768)
                 ELSE LoopWeight(rq, which, coverage, in))

\* The pixel a step stores for the input pixel in.
StoredBy(rq, in, s) ==
    StorePixel(rq.format, in, SolidColor(rq.format, rq.color), s)

\* One pixel of a host-iterate callback or of a Fast loop, with its early-outs.
ApplyEarlyOut ==
    /\ calc = NoCalc
    /\ \E rq \in EarlyOutRequests, which \in {"iterate", "fast"} :
          \E c \in Coords(rq) :
             LET in == SourcePixel(rq, c[1], c[2])
                 s == IF which = "iterate" THEN IterateStep(rq, c[1], c[2], in)
                      ELSE FastStep(rq, c[1], c[2], in)
             IN calc' = [fn |-> "EarlyOut", rq |-> rq, backend |-> which,
                         x |-> c[1], y |-> c[2], input |-> in, step |-> s,
                         stored |-> StoredBy(rq, in, s),
                         analytic |-> StoredBy(rq, in,
                                               AnalyticStep(rq, which, c[1], c[2], in))]
    /\ UNCHANGED <<RenderVars, session>>

\* The output worlds of a host: the pixel format, the deep flag of the 16-bit
\* worlds, the width and the row length in bytes (a host may add bytes to the
\* end of each row).
Worlds ==
    {[format |-> fmt, deep |-> (fmt = "Int16"), width |-> w,
      rowbytes |-> PixelBytes(fmt) * w + pad] :
        fmt \in Formats, w \in 0..MaxWidth, pad \in {0, 4, 12, 16}}

\* The format whose routines Render calls for an output world.
RenderFormat(world) ==
    IF world.deep THEN "Int16"
    ELSE IF world.width > 0 /\ world.rowbytes > 0
            /\ world.rowbytes \div world.width >= 16
    THEN "Float32"
    ELSE "Int8"

\* Render up to the choice of the format.
ApplyRenderFormat ==
    /\ calc = NoCalc
    /\ \E world \in Worlds :
          calc' = [fn |-> "Format", world |-> world, chosen |-> RenderFormat(world)]
    /\ UNCHANGED <<RenderVars, session>>

\* SepColorHalide_GlobalInit on a fresh state, then SepColorHalide_GlobalRelease
\* twice.
ApplyLifecycle ==
    /\ calc = NoCalc
    /\ \E enabled \in BOOLEAN, loader_ok \in BOOLEAN, probe_ok \in BOOLEAN :
          LET init == GlobalInitResult(enabled, loader_ok, probe_ok, NoState)
              first == GlobalReleaseResult(enabled, init.state)
              second == GlobalReleaseResult(enabled, first.state)
          IN calc' = [fn |-> "Lifecycle", enabled |-> enabled,
                      loader_ok |-> loader_ok, probe_ok |-> probe_ok,
                      returned |-> init.returned, inited |-> init.state,
                      released |-> first.state, first |-> first.released,
                      second |-> second.released, last |-> second.state]
    /\ UNCHANGED <<RenderVars, session>>

NextFunctions ==
    \/ ApplyLifecycle
    \/ ApplyAccelerated
    \/ ApplyRenderFormat
    \/ ApplyEarlyOut
    \/ ApplyIterateArea
    \/ ApplyFastBlend
    \/ ApplyColor16
    \/ ApplyAngle

SpecFunctions == InitFunctions /\ [][NextFunctions]_vars

\* ================================================================= claims
\* The input pixel at a coordinate of the render in progress: the pixel of
\* the input world, whatever the row lengths of the two worlds.
Input(c) == SourcePixel(req, c[1], c[2])

\* Rotated x and distance of a pixel from the mask's definition, the angle
\* reduced into [0, 360).
MaskRotated(rq, x, y) ==
    LET angle == Radians(rq.angle % 360)
    IN FAdd(FMul(LoopRx(rq, x), Cosf(angle)), FMul(LoopRy(rq, y), Sinf(angle)))

MaskDist(rq, x, y) ==
    Sqrtf(FAdd(FMul(LoopRx(rq, x), LoopRx(rq, x)), FMul(LoopRy(rq, y), LoopRy(rq, y))))

\* Outside the anti-aliasing band (coverage 0) and inside the solid region
\* (coverage 1).
Outside(rq, c) ==
    IF rq.mode = 1
    THEN MaskRotated(rq, c[1], c[2]) <= -EdgeWidth
    ELSE MaskDist(rq, c[1], c[2]) >= FAdd(rq.radius, EdgeWidth)

Inside(rq, c) ==
    IF rq.mode = 1
    THEN MaskRotated(rq, c[1], c[2]) >= EdgeWidth
    ELSE MaskDist(rq, c[1], c[2]) <= FSub(rq.radius, EdgeWidth)

Range(s) == {s[i] : i \in DOMAIN s}

\* Position of a backend in the dispatcher's chain.
Rank(b) == CASE b = "accelerated" -> 1
             [] b = "iterate" -> 2
             [] OTHER -> 3

\* Largest difference between two pixels over the four channels.
ChannelDiff(p, q) ==
    Max(Max(Abs(p.red - q.red), Abs(p.green - q.green)),
        Max(Abs(p.blue - q.blue), Abs(p.alpha - q.alpha)))

\* The stored pixels w of the output o of request rq whose input is
\* transparent hold the input pixel.
TransparentPassThrough(rq, o, w) ==
    \A c \in w :
        IsTransparent(rq.format, SourcePixel(rq, c[1], c[2]))
            => o[c] = SourcePixel(rq, c[1], c[2])

\* C1: a pixel whose input alpha is 0 (<= 0 for Float32) is stored, when it is
\* stored at all, as the unmodified input pixel, in every backend and in the
\* row-level fill of the manual loops.
C1_TransparentPassThrough == TransparentPassThrough(req, out, written)

\* The stored pixels w of the output o carry the alpha of their input pixel.
AlphaPreserved(rq, o, w) ==
    \A c \in w : o[c].alpha = SourcePixel(rq, c[1], c[2]).alpha

\* C2: every pixel a backend stores carries the input pixel's alpha; only the
\* colour channels are ever changed.
C2_AlphaPreserved == AlphaPreserved(req, out, written)

\* Every pixel of the output o with coverage 0 holds the input pixel.
OutsideUnchanged(rq, o) ==
    \A c \in Coords(rq) : Outside(rq, c) => o[c] = SourcePixel(rq, c[1], c[2])

\* C3: after a successful render every pixel with coverage 0 holds the input
\* pixel, so an image wholly outside the band leaves as it came.
C3_OutsideUnchanged ==
    (pc = "done" /\ err = PF_Err_NONE) => OutsideUnchanged(req, out)

\* Every pixel of the output o with coverage 1 and a non-zero alpha holds the
\* solid colour with the input alpha.
InsideSolid(rq, o) ==
    \A c \in Coords(rq) :
        (Inside(rq, c) /\ ~IsTransparent(rq.format, SourcePixel(rq, c[1], c[2]))) =>
            o[c] = FullColor(SourcePixel(rq, c[1], c[2]), SolidColor(rq.format, rq.color))

\* C4: after a successful render every pixel with coverage 1 and a non-zero
\* alpha holds exactly the solid colour with the input alpha, whichever
\* backend produced it.
C4_InsideSolid ==
    (pc = "done" /\ err = PF_Err_NONE) => InsideSolid(req, out)

\* What the host-iterate callback and the manual loop each compute for the
\* pixel c of the request rq.
IterateComputes(rq, c) == IteratePix(rq, c[1], c[2], SourcePixel(rq, c[1], c[2]))
FastComputes(rq, c) == FastPixel(rq, c[1], c[2], InputPixel(rq, c[1], c[2])).px

\* C5: on the same Int8 input and parameters the backends give every channel
\* of every pixel values within 1 of each other: each pixel a successful
\* host-iterate or manual-loop render has stored is within 1 of what the
\* other of the two computes for it.  (The accelerated function stores no
\* pixel of a world that has pixels.)
C5_BackendsAgree ==
    (pc = "done" /\ err = PF_Err_NONE /\ req.format = "Int8"
        /\ backend \in {"iterate", "fast"}) =>
        \A c \in written :
            /\ ChannelDiff(out[c], IterateComputes(req, c)) <= 1
            /\ ChannelDiff(out[c], FastComputes(req, c)) <= 1

\* C6: the backends of one render are attempted in the order accelerated,
\* host-iterate, manual loop, each at most once, a later one only after the
\* earlier ones did not succeed, and a render that was not cancelled ends
\* with exactly one backend having produced the output.
C6_OneBackendProduces ==
    /\ \A i \in DOMAIN attempts : \A j \in DOMAIN attempts :
          i < j => Rank(attempts[i]) < Rank(attempts[j])
    /\ (pc = "done" /\ err # PF_Interrupt_CANCEL) =>
          /\ backend = attempts[Len(attempts)]
          /\ err = PF_Err_NONE

\* C7: a render whose host-iterate backend reported an error other than
\* cancellation goes on to the manual loop, so no render ends with
\* host-iterate as its last backend and such an error.
C7_ManualAfterIterate ==
    (pc = "done" /\ "iterate" \in Range(attempts)
        /\ err \notin {PF_Err_NONE, PF_Interrupt_CANCEL}) =>
        attempts[Len(attempts)] \in {"fast", "baseline"}

\* C8: a render returns PF_Err_NONE unless the host reported cancellation,
\* which is the only non-zero result: the failure of a backend is not
\* returned to the caller.
C8_OnlyCancellationReturned ==
    pc = "done" => (err # PF_Err_NONE => (abort /\ err = PF_Interrupt_CANCEL))

\* C9: a worker of Render8Fast / Render16Fast / Render32Fast asks the host for
\* an abort before each row it processes, so it has asked at least as often
\* as it has processed rows, and once every worker has returned under an
\* abort with rows left over, the render's result is the abort error.
C9_FastPollsAbort ==
    (pc \in {"workers", "done"} /\ backend = "fast") =>
        /\ \A i \in DOMAIN workers : workers[i].polls >= workers[i].rows
        /\ (\E i \in DOMAIN workers :
               workers[i].returned /\ workers[i].y < workers[i].end_y)
              => err = PF_Interrupt_CANCEL

\* ceil(height / max(1, thread_count)).
CeilRows(height, thread_count) ==
    -((-height) \div Max(1, thread_count))

\* C10: the row ranges of the launched workers are [t*R, min(t*R+R, height))
\* for R = ceil(height / thread count), none of them empty, and every row of
\* [0, height) lies in exactly one of them.
C10_RowPartition ==
    pc \in {"workers", "done"} /\ backend \in {"fast", "baseline"} =>
        LET n == NumThreads(hw, req.height, backend = "fast")
            R == CeilRows(req.height, n)
        IN /\ \A i \in DOMAIN workers :
                 /\ workers[i].t \in 0..(n - 1)
                 /\ workers[i].start_y = workers[i].t * R
                 /\ workers[i].end_y = Min(workers[i].start_y + R, req.height)
                 /\ workers[i].start_y < workers[i].end_y
           /\ \A y \in 0..(req.height - 1) :
                 Cardinality({i \in DOMAIN workers :
                     workers[i].start_y <= y /\ y < workers[i].end_y}) = 1

\* A manual loop split an odd number of rows over two threads: the last range
\* is cut short at the height.
C10_Witness ==
    /\ pc = "workers"
    /\ Len(workers) = 2
    /\ workers[2].end_y = req.height
    /\ workers[2].end_y - workers[2].start_y < workers[1].end_y - workers[1].start_y

\* C11: a manual-loop render returns only after every thread it started has
\* left process_rows, whether the rows were all processed or the loop was
\* cancelled; no started thread is still running once the call has returned.
C11_AllWorkersJoined ==
    (pc = "done" /\ backend \in {"fast", "baseline"}) =>
        /\ workers = [i \in DOMAIN workers |-> [workers[i] EXCEPT !.returned = TRUE]]
        /\ Len(workers) = Len(Spawn(hw, req.height, backend = "fast"))

\* A cancelled manual loop has returned: two threads were started, one
\* processed a row before the abort, one stopped with rows left.
C11_Witness ==
    /\ pc = "done"
    /\ backend = "fast"
    /\ err = PF_Interrupt_CANCEL
    /\ Len(workers) = 2
    /\ \E i \in DOMAIN workers : workers[i].rows > 0
    /\ \E i \in DOMAIN workers : workers[i].y < workers[i].end_y
    /\ \A i \in DOMAIN workers : workers[i].returned

\* C12: a successful host-iterate Circle render of an Int8 world into an
\* output distinct from the input leaves every pixel outside the rectangle
\* handed to the host equal to the input pixel, the input having been copied
\* to the output beforehand.
C12_CopiedOutsideArea ==
    (pc = "done" /\ backend = "iterate" /\ err = PF_Err_NONE
        /\ req.format = "Int8" /\ req.mode # 1 /\ ~req.in_place) =>
        \A c \in Coords(req) :
            ~InArea(IterateArea(req), c[1], c[2]) => out[c] = Input(c)

\* C13: whatever the anchor (inside the world, beyond any edge, negative),
\* the radius and the resolution factors, the rectangle Render8Iterate hands
\* to the host for a Circle lies within the world and is not inverted:
\* 0 <= left <= right <= width and 0 <= top <= bottom <= height.
C13_AreaClamped ==
    calc.fn = "IterateArea" =>
        /\ 0 <= calc.area.left
        /\ calc.area.left <= calc.area.right
        /\ calc.area.right <= calc.rq.width
        /\ 0 <= calc.area.top
        /\ calc.area.top <= calc.area.bottom
        /\ calc.area.bottom <= calc.rq.height

\* C14: the capability state is probed exactly once in a session, before the
\* first render starts, and is not probed again while a render runs, so every
\* render reads the values that one probe left.
C14_ProbedOnceBeforeRender ==
    [][/\ (pc = "idle" /\ pc' = "render") => session.probes = 1
       /\ pc # "idle" => session'.probes = session.probes
       /\ session'.probes <= 1]_vars

\* C15: in a session that the host has closed, SepColorHalide_GlobalRelease
\* has run exactly once, after the last render.
C15_ReleasedOnceAtSetdown ==
    session.closed =>
        /\ session.releases = 1
        /\ pc = "idle"

\* Distance of a blend result from dst: channel steps for Int8 and Int16, a
\* float for Float32.
Apart(fmt, a, b) == IF fmt = "Float32" THEN Abs(FSub(a, b)) ELSE Abs(a - b)

\* C16: for a fixed channel pair the blend result never moves back toward
\* src as the effective coverage grows, it is src at effective coverage 0 and
\* dst at effective coverage 1, in each of the three formats.
C16_BlendMonotonic ==
    calc.fn = "FastBlend" =>
        /\ Apart(calc.format, calc.dst, calc.result2)
              <= Apart(calc.format, calc.dst, calc.result1)
        /\ calc.weight1 = FZero => calc.result1 = calc.src
        /\ calc.weight2 = FOne => calc.result2 = calc.dst

\* The floats next to a positive float: one unit in the last place apart.
Neighbours(a) == {a - 1, a, a + 1}

\* C16 as amended: the result never moves back toward src as the effective
\* coverage grows and is src at effective coverage 0; at effective coverage 1
\* it is dst for Int8 and Int16, and for Float32 it is dst up to the rounding
\* of src + (dst - src) in single precision, at most one unit in the last
\* place of the larger of src and dst.
C16_BlendMonotonicRounded ==
    calc.fn = "FastBlend" =>
        /\ Apart(calc.format, calc.dst, calc.result2)
              <= Apart(calc.format, calc.dst, calc.result1)
        /\ calc.weight1 = FZero => calc.result1 = calc.src
        /\ calc.weight2 = FOne =>
              IF calc.format = "Float32"
              THEN Apart("Float32", calc.result2, calc.dst)
                       <= FSub(Max(calc.src, calc.dst) + 1, Max(calc.src, calc.dst))
              ELSE calc.result2 = calc.dst

\* FastBlendFloat was applied at a partial and at the full effective coverage:
\* the first result lies strictly between src and dst, the second is next to
\* dst without being dst.
C16_Witness ==
    /\ calc.fn = "FastBlend"
    /\ calc.format = "Float32"
    /\ calc.weight2 = FOne
    /\ calc.result2 # calc.dst
    /\ calc.result2 \in Neighbours(calc.dst)
    /\ Apart("Float32", calc.dst, calc.result1) < Apart("Float32", calc.dst, calc.src)
    /\ Apart("Float32", calc.dst, calc.result2) < Apart("Float32", calc.dst, calc.result1)

\* What the Circle scenario asks of the output world o of request rq.
CircleScenarioHolds(rq, o) ==
    /\ o[<<2, 2>>] = Pix(255, 0, 0, 255)
    /\ o[<<0, 0>>] = SourcePixel(rq, 0, 0)
    /\ \A c \in Coords(rq) :
          MaskDist(rq, c[1], c[2]) >= FAdd(rq.radius, EdgeWidth)
              => o[c] = SourcePixel(rq, c[1], c[2])

\* C17: on the opaque 4x4 Int8 image, Circle about (2, 2) with radius 1 and
\* colour (255, 0, 0), a successful render by any backend leaves pixel (2, 2)
\* as (255, 0, 0, 255) and every pixel at distance >= radius + edge_width,
\* (0, 0) among them, as the input pixel.
C17_CircleScenario ==
    (pc = "done" /\ err = PF_Err_NONE /\ req = CircleScenario(req.in_place)) =>
        CircleScenarioHolds(req, out)

\* A render of the Circle scenario into a separate output world returned
\* without error: the centre is solid, its left neighbour on the rim is
\* blended, the corner is the input pixel.
C17_Witness ==
    /\ pc = "done"
    /\ err = PF_Err_NONE
    /\ req = CircleScenario(FALSE)
    /\ out[<<2, 2>>] = Pix(255, 0, 0, 255)
    /\ out[<<1, 2>>] \notin {SourcePixel(req, 1, 2), Pix(255, 0, 0, 255)}
    /\ out[<<0, 0>>] = SourcePixel(req, 0, 0)

\* The alpha of a pixel as a float in [0, 1].
NormalAlpha(fmt, alpha) ==
    CASE fmt = "Int8" -> FMul(FromInt(alpha), INV_255)
      [] fmt = "Int16" -> FMul(FromInt(alpha), INV_32768)
      [] OTHER -> alpha

\* What the Line scenario asks of the output world o of request rq.
LineScenarioHolds(rq, o) ==
    \A c \in Coords(rq) :
        LET rx == LoopRx(rq, c[1])
            in == SourcePixel(rq, c[1], c[2])
            col == SolidColor(rq.format, rq.color)
            weight == FMul(HalfOfPlusOne(FMul(rx, InvEdgeWidth)),
                           NormalAlpha(rq.format, in.alpha))
        IN /\ rx < -EdgeWidth => o[c] = in
           /\ (rx > EdgeWidth /\ ~IsTransparent(rq.format, in)) =>
                 o[c] = FullColor(in, col)
           /\ (-EdgeWidth < rx /\ rx < EdgeWidth /\ ~IsTransparent(rq.format, in)) =>
                 o[c] = Blended(rq.format, in, col, weight)

\* C18: after a successful Line render at angle 0 about (0, 0), every pixel
\* with a non-zero alpha and rx > edge_width holds the solid colour, every
\* pixel with rx < -edge_width holds the input pixel, and a pixel inside the
\* band is the blend of weight (rx / edge_width + 1) / 2 times its normalised
\* alpha.
C18_LineScenario ==
    (pc = "done" /\ err = PF_Err_NONE
        /\ req = LineScenario(req.format, req.height, req.in_place)) =>
        LineScenarioHolds(req, out)

\* A render of the Line scenario returned without error: the half-transparent
\* pixel (1, 0), at rx = 1 > edge_width, holds the solid colour with its own
\* alpha, and the opaque pixel (0, 2), on the line itself, is blended.
C18_Witness ==
    /\ pc = "done"
    /\ err = PF_Err_NONE
    /\ req = LineScenario(req.format, req.height, req.in_place)
    /\ req.height > 2
    /\ ~IsTransparent(req.format, SourcePixel(req, 1, 0))
    /\ out[<<1, 0>>] = FullColor(SourcePixel(req, 1, 0), SolidColor(req.format, req.color))
    /\ out[<<1, 0>>] # SourcePixel(req, 1, 0)
    /\ ~IsTransparent(req.format, SourcePixel(req, 0, 2))
    /\ out[<<0, 2>>] \notin {SourcePixel(req, 0, 2),
                            FullColor(SourcePixel(req, 0, 2),
                                      SolidColor(req.format, req.color))}

\* What a pixel function did to an opaque pixel whose colour is not the solid
\* colour: passed it through, stored the solid colour, or blended.
DecisionOf(fmt, o, in, col) ==
    IF o = in THEN "pass-through"
    ELSE IF o = FullColor(in, col) THEN "full" ELSE "blended"

\* The decision of a backend's variant for format fmt at (x, y) of a request.
Decision(which, fmt, rq, x, y) ==
    LET rf == [rq EXCEPT !.format = fmt]
        in == OpaquePixel(fmt, x, y)
        o == CASE which = "iterate" -> IteratePix(rf, x, y, in)
               [] which = "fast" -> FastPixel(rf, x, y, in).px
               [] OTHER -> LoopPixel(rf, x, y, in).px
    IN DecisionOf(fmt, o, in, SolidColor(fmt, rq.color))

\* C19: for the same geometry and pixel coordinate the Int8, Int16 and
\* Float32 variants of a backend take the same coverage decision: a pixel is
\* passed through, given the full colour or blended by all three alike.
C19_FormatsDecideAlike ==
    pc = "render" =>
        \A which \in {"iterate", "fast", "baseline"} : \A c \in Coords(req) :
            /\ Decision(which, "Int8", req, c[1], c[2]) = Decision(which, "Int16", req, c[1], c[2])
            /\ Decision(which, "Int8", req, c[1], c[2]) = Decision(which, "Float32", req, c[1], c[2])

\* C20: the Int16 value of an 8-bit colour channel c is (c * 32768 + 127) / 255
\* truncated: it lies in 0..32768, does not decrease as c grows, is 0 for 0
\* and 32768 for 255, and the host-iterate path and the loops compute the
\* same value.
C20_Color16 ==
    calc.fn = "Color16" =>
        /\ \A i \in {1, 2} :
              LET c == IF i = 1 THEN calc.c1 ELSE calc.c2
                  r == calc.color16[i]
              IN /\ r \in 0..32768
                 /\ 255 * r <= c * 32768 + 127
                 /\ c * 32768 + 127 < 255 * (r + 1)
                 /\ c = 0 => r = 0
                 /\ c = 255 => r = 32768
                 /\ calc.r16[i] = r
        /\ calc.color16[1] <= calc.color16[2]

\* The conversion was applied to channel values 1 and 255: 129 and 32768.
C20_Witness ==
    /\ calc.fn = "Color16"
    /\ calc.c1 = 1 /\ calc.c2 = 255
    /\ calc.color16 = <<129, 32768>>
    /\ calc.r16 = <<129, 32768>>

\* C21: in every backend and format the angle whose radians reach cosf and
\* sinf is the host's angle reduced modulo 360 into [0, 360).
C21_AngleReduced ==
    calc.fn = "Angle" => calc.radians = Radians(calc.angle % 360)

\* The step a backend's kernel takes at (x, y) of a request.
StepOf(which, rq, x, y) ==
    CASE which = "accelerated" -> SepColorHalide_Step(rq, x, y, HalideInput(rq, x, y))
      [] which = "iterate" -> IterateStep(rq, x, y, SourcePixel(rq, x, y))
      [] which = "fast" -> FastStep(rq, x, y, InputPixel(rq, x, y))
      [] OTHER -> LoopStep(rq, x, y, InputPixel(rq, x, y))

\* The backends that have a kernel for the request's format.
KernelsFor(rq) ==
    IF rq.format = "Int8" THEN {"accelerated", "iterate", "fast", "baseline"}
    ELSE {"iterate", "fast", "baseline"}

\* C22: a coverage used as a blend weight lies in [0, 1] in every backend,
\* mode and format, IteratePix8 and IteratePix16 (which do not clamp) included.
C22_WeightInUnitRange ==
    pc = "render" =>
        \A which \in KernelsFor(req) : \A c \in Coords(req) :
            LET s == StepOf(which, req, c[1], c[2])
            IN s.kind = "blend" => FZero <= s.coverage /\ s.coverage <= FOne

\* A host-iterate render of an integer format blends a pixel with a weight
\* strictly inside (0, 1), in Circle mode and in Line mode.
C22_Witness ==
    /\ pc = "done" /\ backend = "iterate" /\ req.format \in {"Int8", "Int16"}
    /\ req.mode = 2 /\ req.radius > FZero
    /\ \E c \in written :
          LET s == StepOf("iterate", req, c[1], c[2])
          IN s.kind = "blend" /\ FZero < s.coverage /\ s.coverage < FOne

\* C23: the accelerated functions return false for Int16 and Float32 without
\* touching a buffer, so these formats are rendered by another backend; they
\* report success for Int8 only, and only with the runtime loaded.
C23_AcceleratedInt8Only ==
    calc.fn = "SepColorHalide_Render" =>
        /\ calc.rq.format # "Int8" =>
              /\ ~calc.returned
              /\ calc.written = {}
              /\ calc.out = InitialOutput(calc.rq)
        /\ calc.returned => (calc.rq.format = "Int8" /\ calc.state.runtime_loaded)

\* SepColorHalide_Render32 was called with the runtime loaded on a Float32
\* world that has pixels, and returned false.
C23_Witness ==
    /\ calc.fn = "SepColorHalide_Render"
    /\ calc.enabled /\ calc.state.runtime_loaded
    /\ calc.rq.format = "Float32" /\ calc.rq.height > 0
    /\ ~calc.returned

\* C24: the workers of a manual loop share nothing they write but their
\* disjoint output rows: no two workers store into the same variable, also
\* when both observe the cancellation.
C24_WorkersShareNoVariable ==
    \A i, j \in DOMAIN workers :
        i # j =>
            /\ ~(workers[i].wrote_err /\ workers[j].wrote_err)
            /\ workers[i].end_y <= workers[j].start_y
                  \/ workers[j].end_y <= workers[i].start_y

\* The pixel a manual loop stores at c when the output is a buffer of its own.
SeparateOutput(rq, which, c) ==
    ManualPixel([rq EXCEPT !.in_place = FALSE], which, c[1], c[2]).px

\* C25: a manual loop rendering in place has, when it returns (cancelled or
\* not), stored no pass-through pixel and copied no pass-through row, and a
\* loop that was not cancelled leaves in the buffer what the same request
\* would have written into a separate output.
C25_InPlaceEqualsSeparate ==
    (pc = "done" /\ req.in_place /\ backend \in {"fast", "baseline"}) =>
        /\ \A c \in written :
              /\ StepOf(backend, req, c[1], c[2]).kind # "copy"
              /\ out[c] = SeparateOutput(req, backend, c)
        /\ err = PF_Err_NONE =>
              \A c \in Coords(req) : out[c] = SeparateOutput(req, backend, c)

\* An in-place manual render finished having skipped a pass-through pixel
\* and stored another pixel.
C25_Witness ==
    /\ pc = "done" /\ err = PF_Err_NONE
    /\ req.in_place /\ backend \in {"fast", "baseline"}
    /\ written # {} /\ written # Coords(req)
    /\ \E c \in Coords(req) \ written : StepOf(backend, req, c[1], c[2]).kind = "copy"

\* C26: every early-out is a shortcut: for a pixel of non-zero alpha the
\* row-level early-outs of the Fast loops and the squared-distance and
\* rotated-x exits of IteratePix8 / IteratePix16 store exactly the pixel of
\* the analytic rule, for every radius >= 0.
C26_EarlyOutsAreShortcuts ==
    (calc.fn = "EarlyOut" /\ calc.input.alpha # FZero) => calc.stored = calc.analytic

\* C27: for src, dst and alpha inside the domain of Int8 or Int16 the value
\* FastBlend / FastBlend16 computes before the narrowing cast lies between
\* min(src, dst) and max(src, dst) + 0.5, so the cast does not wrap and the
\* blended channel lies between src and dst.
C27_BlendInRange ==
    (calc.fn = "FastBlend" /\ calc.format \in {"Int8", "Int16"}) =>
        /\ FromInt(Min(calc.src, calc.dst)) <= calc.before2
        /\ calc.before2 <= FAdd(FromInt(Max(calc.src, calc.dst)), FHalf)
        /\ calc.result2 = FTrunc(calc.before2)
        /\ Min(calc.src, calc.dst) <= calc.result2
        /\ calc.result2 <= Max(calc.src, calc.dst)

\* FastBlend16 was applied to the largest channel value at a partial weight
\* and gave a value strictly between src and dst.
C27_Witness ==
    /\ calc.fn = "FastBlend" /\ calc.format = "Int16"
    /\ calc.src = 32768 /\ calc.dst < calc.src
    /\ 0 < calc.alpha2 /\ calc.alpha2 < 32768
    /\ calc.dst < calc.result2 /\ calc.result2 < calc.src

\* C28: the format Render chooses is the world's own: Int16 for a deep world,
\* Float32 for a non-deep world only if its pixels are 16 bytes wide, never
\* Float32 for an 8-bit world of width >= 1 whatever the row padding, and
\* Int8 for a non-deep world of width 0.
C28_FormatIsReal ==
    calc.fn = "Format" =>
        /\ calc.world.width >= 1 => calc.chosen = calc.world.format
        /\ (calc.world.width = 0 /\ ~calc.world.deep) => calc.chosen = "Int8"
        /\ calc.world.deep => calc.chosen = "Int16"

\* C29: after SepColorHalide_GlobalInit gpu_enabled implies runtime_loaded and
\* the return value is runtime_loaded: false with both flags false when the
\* runtime cannot be loaded, true with runtime_loaded, without gpu_enabled and
\* on the host target when only the probe fails; after
\* SepColorHalide_GlobalRelease both flags are false, and a second release
\* does not release the runtime again.
C29_Lifecycle ==
    calc.fn = "Lifecycle" =>
        /\ calc.inited.gpu_enabled => calc.inited.runtime_loaded
        /\ calc.returned = calc.inited.runtime_loaded
        /\ (calc.enabled /\ ~calc.loader_ok) =>
              /\ ~calc.returned
              /\ ~calc.inited.runtime_loaded /\ ~calc.inited.gpu_enabled
        /\ (calc.enabled /\ calc.loader_ok /\ ~calc.probe_ok) =>
              /\ calc.returned
              /\ calc.inited.runtime_loaded /\ ~calc.inited.gpu_enabled
              /\ calc.inited.target = "host"
        /\ ~calc.released.runtime_loaded /\ ~calc.released.gpu_enabled
        /\ ~calc.last.runtime_loaded /\ ~calc.last.gpu_enabled
        /\ calc.first = calc.inited.runtime_loaded
        /\ ~calc.second

\* The runtime was loaded with a failed probe, released once by the first
\* release and not by the second.
C29_Witness ==
    /\ calc.fn = "Lifecycle"
    /\ calc.enabled /\ calc.loader_ok /\ ~calc.probe_ok
    /\ calc.returned /\ calc.first /\ ~calc.second

\* dist2 = fx * fx + fy * fy of IteratePix8 at (x, y).
IterateDist2(rq, x, y) ==
    SumOfSquares(IterateFx(Refcon(rq), x), IterateFy(Refcon(rq), y))

\* C30: the rectangle Render8Iterate computes for a Circle is conservative:
\* every pixel of the world at a distance below radius + edge_width of the
\* anchor, that is with a coverage above 0, lies inside it.
C30_AreaConservative ==
    calc.fn = "IterateArea" =>
        \A c \in Coords(calc.rq) :
            IterateDist2(calc.rq, c[1], c[2]) < Refcon(calc.rq).r_plus2 =>
                InArea(calc.area, c[1], c[2])

\* A rectangle that leaves part of the world out and holds a pixel of the
\* anti-aliasing band, for an anchor left of the world and rows at half
\* resolution.
C30_Witness ==
    /\ calc.fn = "IterateArea"
    /\ calc.rq.anchor_x < 0 /\ calc.rq.downsample_y = 2
    /\ \E c \in Coords(calc.rq) : ~InArea(calc.area, c[1], c[2])
    /\ \E c \in Coords(calc.rq) :
          /\ IterateDist2(calc.rq, c[1], c[2]) < Refcon(calc.rq).r_plus2
          /\ IterateDist2(calc.rq, c[1], c[2]) > Refcon(calc.rq).r_minus2
          /\ InArea(calc.area, c[1], c[2])

====
